---- MODULE Spec2Model ----
(***************************************************************************)
(* Model of the afterglow firmware (afterglow_arduino.ino): the realtime   *)
(* tick (ISR TIMER1_COMPA), the column validator, the brightness           *)
(* integrator, the PWM output driver, the configuration record with its    *)
(* derived tables, and the background loop's serial commands.              *)
(*                                                                         *)
(* Bytes are integers 0..255, 16 bit values integers 0..65535.  A lamp     *)
(* matrix is a function [0..7 -> [0..7 -> value]], indexed [col][row].     *)
(* TLC integers are 32 bit signed, so the 32 bit checksum is kept as the   *)
(* pair <<high half, low half>> of 16 bit values.                          *)
(***************************************************************************)
EXTENDS Integers, Sequences, FiniteSets, TLC

VARIABLES
    pc,                      \* "boot" before setup() has run, "run" after
    loopPc,                  \* background loop: "idle", or "rx" inside receiveCfg
    PINB,                    \* jumper inputs, low 4 bits of port B
    sMatrixState,            \* lamp matrix 'memory'
    sTtag,                   \* local time
    sLastColMask,            \* last raw column sample
    sLastRowMask,            \* last raw row sample
    sConsistentSamples,      \* static of updateValid
    sLastUpdColMask,         \* static of updateValid
    sLastPassThroughColMask, \* static of driveLampMatrixPassThrough
    sLastPassThroughRowMask, \* static of driveLampMatrixPassThrough
    sCfg,                    \* active configuration record
    sGlowSteps,              \* precalculated glow steps
    sMaxSubcycle,            \* precalculated maximum subcycles
    sLastPINB,               \* last state of PINB seen by loop()
    eeprom,                  \* the persisted bytes, EEPROM cells 0..131
    OCR1A,                   \* timer compare value [16MHz cycles]
    OCIE1A,                  \* timer compare interrupt enabled
    wdtOn,                   \* watchdog enabled
    OE,                      \* output enable line (PORTC bit 1), 1 = outputs off
    isr,                     \* the locals of the last tick and the frames it emitted
    rx,                      \* receiveCfg: the sender's stream and the bytes read
    serialTx,                \* the last message written to the serial port (msg, data)
    hist                     \* what the harness of a specification follows (v0, on, n)

vars == <<pc, loopPc, PINB, sMatrixState, sTtag, sLastColMask, sLastRowMask,
          sConsistentSamples, sLastUpdColMask, sLastPassThroughColMask,
          sLastPassThroughRowMask, sCfg, sGlowSteps, sMaxSubcycle, sLastPINB,
          eeprom, OCR1A, OCIE1A, wdtOn, OE, isr, rx, serialTx, hist>>

-----------------------------------------------------------------------------
(* Program constants *)

AFTERGLOW_VERSION == 108
AFTERGLOW_CFG_VERSION == 1
SINGLE_UPDATE_CONS == 2
ORIG_INT == 2000
TTAG_INT_A == 250
TTAG_INT_B == 500
ORIG_CYCLES_A == ORIG_INT \div TTAG_INT_A
ORIG_CYCLES_B == ORIG_INT \div TTAG_INT_B
NUM_COL == 8
NUM_ROW == 8
DEFAULT_GLOWDUR == 140
GLOWDUR_CFG_SCALE == 10
DEFAULT_BRIGHTNESS == 7
AG_CMD_WRITE_BUF == 32

\* sizeof(AFTERGLOW_CFG_t): 2 + 2 + 64 + 64 + 4 bytes
CfgSize == 2 + 2 + NUM_COL * NUM_ROW + NUM_COL * NUM_ROW + 4

Cols == 0 .. (NUM_COL - 1)
Rows == 0 .. (NUM_ROW - 1)

-----------------------------------------------------------------------------
(* Bit helpers *)

Pow2(k) == <<1, 2, 4, 8, 16, 32, 64, 128, 256>>[k + 1]

BitOf(v, k) == (v \div Pow2(k)) % 2

\* ~(byte)v
NotByte(v) == 255 - (v % 256)

Min(a, b) == IF a < b THEN a ELSE b

\* the jumper bits of PINB
StrapA(p) == BitOf(p, 2) = 1        \* PINB & B00000100: timing mode A
PassThrough(p) == BitOf(p, 3) = 0   \* (PINB & B00001000) == 0
TestMode(p) == BitOf(p, 0) = 0      \* (PINB & B00000001) == 0

Matrix(v) == [c \in Cols |-> [r \in Rows |-> v]]

-----------------------------------------------------------------------------
(* calculateCRC32: bitwise CRC-32, polynomial 0x04c11db7, start 0xffffffff, *)
(* most significant bit first, no final inversion.                          *)

\* v ^ p for one bit p of the polynomial, as the amount to add to v
Tgl(v, p) == IF (v \div p) % 2 = 0 THEN p ELSE 0 - p

\* high half ^ 0x04c1
XorPolyHi(h) == h + Tgl(h, 1) + Tgl(h, 64) + Tgl(h, 128) + Tgl(h, 1024)

\* low half ^ 0x1db7
XorPolyLo(l) ==
    l + Tgl(l, 1) + Tgl(l, 2) + Tgl(l, 4) + Tgl(l, 16) + Tgl(l, 32) + Tgl(l, 128)
      + Tgl(l, 256) + Tgl(l, 1024) + Tgl(l, 2048) + Tgl(l, 4096)

\* one pass of the inner loop: bit = crc & 0x80000000, flipped by the data
\* bit; crc <<= 1; if (bit) crc ^= 0x04c11db7
CrcBit(crc, dataBit) ==
    LET hi == (crc[1] * 2 + crc[2] \div 32768) % 65536
        lo == (crc[2] * 2) % 65536
    IN  IF (crc[1] \div 32768 = 1) # (dataBit = 1)
        THEN <<XorPolyHi(hi), XorPolyLo(lo)>>
        ELSE <<hi, lo>>

\* the inner loop over one data byte, i = 0x80 down to 0x01
CrcByte(crc, c) ==
    CrcBit(CrcBit(CrcBit(CrcBit(CrcBit(CrcBit(CrcBit(CrcBit(crc,
        BitOf(c, 7)), BitOf(c, 6)), BitOf(c, 5)), BitOf(c, 4)),
        BitOf(c, 3)), BitOf(c, 2)), BitOf(c, 1)), BitOf(c, 0))

\* the outer loop over data[lo..hi], split in halves to keep the evaluation
\* shallow; the bytes are consumed in order
RECURSIVE CrcRange(_, _, _, _)
CrcRange(crc, data, lo, hi) ==
    IF lo > hi THEN crc
    ELSE IF lo = hi THEN CrcByte(crc, data[lo])
    ELSE LET mid == (lo + hi) \div 2
             left == CrcRange(crc, data, lo, mid)
         IN  IF left[1] >= 0 THEN CrcRange(left, data, mid + 1, hi) ELSE left

calculateCRC32(data, length) == CrcRange(<<65535, 65535>>, data, 1, length)

-----------------------------------------------------------------------------
(* AFTERGLOW_CFG_t and its memory image (AVR: little endian, no padding) *)

Flat(m) == [i \in 1 .. (NUM_COL * NUM_ROW) |-> m[(i - 1) \div NUM_ROW][(i - 1) % NUM_ROW]]

\* the bytes of the struct: version, res, lampGlowDur, lampBrightness, crc
CfgBytes(cfg) ==
    <<cfg.version % 256, cfg.version \div 256, cfg.res % 256, cfg.res \div 256>>
    \o Flat(cfg.lampGlowDur) \o Flat(cfg.lampBrightness)
    \o <<cfg.crc[2] % 256, cfg.crc[2] \div 256, cfg.crc[1] % 256, cfg.crc[1] \div 256>>

\* the struct read back from its bytes
CfgOfBytes(b) ==
    [version |-> b[1] + 256 * b[2],
     res |-> b[3] + 256 * b[4],
     lampGlowDur |-> [c \in Cols |-> [r \in Rows |-> b[4 + c * NUM_ROW + r + 1]]],
     lampBrightness |-> [c \in Cols |-> [r \in Rows |-> b[4 + NUM_COL * NUM_ROW + c * NUM_ROW + r + 1]]],
     crc |-> <<b[CfgSize - 1] + 256 * b[CfgSize], b[CfgSize - 3] + 256 * b[CfgSize - 2]>>]

\* a record with the checksum calculateCRC32 gives its first cfgSize-4 bytes
WithCrc(cfg) ==
    [cfg EXCEPT !.crc = calculateCRC32(CfgBytes(cfg), CfgSize - 4)]

\* setDefaultCfg(): memset 0, version, default glow duration and brightness, crc
DefaultCfgRec ==
    WithCrc([version |-> AFTERGLOW_CFG_VERSION,
             res |-> 0,
             lampGlowDur |-> Matrix(DEFAULT_GLOWDUR \div GLOWDUR_CFG_SCALE),
             lampBrightness |-> Matrix(DEFAULT_BRIGHTNESS),
             crc |-> <<0, 0>>])

-----------------------------------------------------------------------------
(* Derived brightness model *)

\* a glow step that does not treat the duration 0 apart
GlowStepZeroOff(glowDurCode) ==
    LET glowDur == glowDurCode * GLOWDUR_CFG_SCALE
    IN  IF glowDur > 0
        THEN (((65535 \div ((glowDur * 1000) \div ORIG_INT)) % 65536) * NUM_COL) % 65536
        ELSE 0

\* applyCfg(), glow step of one lamp: the quotient is cast to uint16_t and the
\* product with NUM_COL is stored in a uint16_t
GlowStep(glowDurCode) ==
    LET glowDur == glowDurCode * GLOWDUR_CFG_SCALE
    IN  IF glowDur > 0
        THEN (((65535 \div ((glowDur * 1000) \div ORIG_INT)) % 65536) * NUM_COL) % 65536
        ELSE 65535

\* applyCfg(), maximum subcycle of one lamp; strapA is PINB & B00000100
MaxSubcycleOf(brightness, strapA) ==
    IF strapA
    THEN brightness \div Pow2(8 \div ORIG_CYCLES_A - 1)
    ELSE brightness \div Pow2(8 \div ORIG_CYCLES_B - 1)

\* applyCfg(): the two tables computed from a configuration record
applyCfgGlowSteps(cfg) ==
    [c \in Cols |-> [r \in Rows |-> GlowStep(cfg.lampGlowDur[c][r])]]

applyCfgMaxSubcycle(cfg, pinb) ==
    [c \in Cols |-> [r \in Rows |-> MaxSubcycleOf(cfg.lampBrightness[c][r], StrapA(pinb))]]

-----------------------------------------------------------------------------
(* Brightness integrator *)

\* updateMx with the saturation tests dropped (16 bit wrap)
updateMxWrap(v, on, step) ==
    IF on THEN (v + step) % 65536 ELSE (v + 65536 - step) % 65536

\* updateMx that leaves the counter alone when the step does not fit
updateMxNoRail(v, on, step) ==
    IF on
    THEN IF v < 65535 - step THEN v + step ELSE v
    ELSE IF v > step THEN v - step ELSE v

\* updateMx that goes to the upper rail one step early
updateMxEarlyRail(v, on, step) ==
    IF on
    THEN IF v + step < 65535 - step THEN v + step ELSE 65535
    ELSE IF v > step THEN v - step ELSE 0

\* updateMx(): the new value of one counter
\* updateMx whose 'off' branch subtracts without the test (16 bit wrap)
updateMxOffWrap(v, on, step) ==
    IF on
    THEN IF v < 65535 - step THEN v + step ELSE 65535
    ELSE (v + 65536 - step) % 65536

updateMx(v, on, step) ==
    IF on
    THEN IF v < 65535 - step THEN v + step ELSE 65535
    ELSE IF v > step THEN v - step ELSE 0

\* updateCol(): the matrix after the update of one column; a column index
\* out of range changes nothing
\* an updateCol that lets the lamps of all other columns fade as well
updateColFadeOthers(mx, steps, col, rowMask) ==
    IF col >= NUM_COL
    THEN mx
    ELSE [c \in Cols |->
            [r \in Rows |-> updateMx(mx[c][r], (c = col) /\ BitOf(rowMask, r) = 1,
                                     steps[c][r])]]

updateCol(mx, steps, col, rowMask) ==
    IF col >= NUM_COL
    THEN mx
    ELSE [mx EXCEPT ![col] =
            [r \in Rows |-> updateMx(mx[col][r], BitOf(rowMask, r) = 1, steps[col][r])]]

-----------------------------------------------------------------------------
(* Column validator *)

\* a decoder that takes the highest set bit as the column
ColOfMaskHighestBit(inColMask) ==
    IF inColMask = 0 THEN NUM_COL
    ELSE CHOOSE k \in Cols : BitOf(inColMask, k) = 1 /\ inColMask < Pow2(k + 1)

\* the switch on inColMask in the ISR: the column index, NUM_COL if none
ColOfMask(inColMask) ==
    CASE inColMask = 1 -> 0
      [] inColMask = 2 -> 1
      [] inColMask = 4 -> 2
      [] inColMask = 8 -> 3
      [] inColMask = 16 -> 4
      [] inColMask = 32 -> 5
      [] inColMask = 64 -> 6
      [] inColMask = 128 -> 7
      [] OTHER -> NUM_COL

\* updateValid without the wait for a second consistent sample
\* a validator that wants one more consistent sample
updateValidThreeLooks(inColMask, inRowMask, cons, lastUpd, lastCol, lastRow) ==
    IF inColMask # lastUpd
    THEN LET cons2 == IF (inColMask # lastCol) \/ (inRowMask # lastRow)
                      THEN 0
                      ELSE IF cons < 255 THEN cons + 1 ELSE cons
         IN  IF cons2 >= SINGLE_UPDATE_CONS
             THEN [cons |-> cons2, lastUpd |-> inColMask, valid |-> TRUE]
             ELSE [cons |-> cons2, lastUpd |-> lastUpd, valid |-> FALSE]
    ELSE [cons |-> cons, lastUpd |-> lastUpd, valid |-> FALSE]

updateValidFirstLook(inColMask, inRowMask, cons, lastUpd, lastCol, lastRow) ==
    IF inColMask # lastUpd
    THEN [cons |-> 0, lastUpd |-> inColMask, valid |-> TRUE]
    ELSE [cons |-> cons, lastUpd |-> lastUpd, valid |-> FALSE]

\* updateValid(): the new statics and the result
updateValid(inColMask, inRowMask, cons, lastUpd, lastCol, lastRow) ==
    IF inColMask # lastUpd
    THEN LET cons2 == IF (inColMask # lastCol) \/ (inRowMask # lastRow)
                      THEN 0
                      ELSE IF cons < 255 THEN cons + 1 ELSE cons
         IN  IF cons2 >= SINGLE_UPDATE_CONS - 1
             THEN [cons |-> cons2, lastUpd |-> inColMask, valid |-> TRUE]
             ELSE [cons |-> cons2, lastUpd |-> lastUpd, valid |-> FALSE]
    ELSE [cons |-> cons, lastUpd |-> lastUpd, valid |-> FALSE]

-----------------------------------------------------------------------------
(* Output PWM driver *)

\* the cycles per original interval of the timing mode
OrigCycles(strapA) == IF strapA THEN ORIG_CYCLES_A ELSE ORIG_CYCLES_B

\* driveLampMatrix(), one lamp: is its row bit set in this sub cycle
\* a lamp test that compares with > in place of >=
LampOnStrict(v, maxSubCycle, colCycle, strapA) ==
    /\ v # 0
    /\ LET subCycle == v \div (65536 \div OrigCycles(strapA))
       IN  Min(subCycle, maxSubCycle) > colCycle

LampOn(v, maxSubCycle, colCycle, strapA) ==
    /\ v # 0
    /\ LET subCycle == v \div (65536 \div OrigCycles(strapA))
       IN  Min(subCycle, maxSubCycle) >= colCycle

RECURSIVE RowDataFrom(_, _, _, _, _)
RowDataFrom(r, col, maxSub, colCycle, strapA) ==
    IF r >= NUM_ROW THEN 0
    ELSE (IF LampOn(col[r], maxSub[r], colCycle, strapA) THEN Pow2(r) ELSE 0)
         + RowDataFrom(r + 1, col, maxSub, colCycle, strapA)

\* a driver that blanks the outputs after the column, not before
driveLampMatrixBlankLast(ttag, pinb, mx, maxSub) ==
    LET outCol == ttag % NUM_COL
        colCycle == (ttag \div NUM_COL) % OrigCycles(StrapA(pinb))
    IN  << <<Pow2(outCol), RowDataFrom(0, mx[outCol], maxSub[outCol], colCycle, StrapA(pinb))>>,
           <<0, 0>> >>

\* a driver that stays on a column for the sub-cycles and then moves on
driveLampMatrixColSlow(ttag, pinb, mx, maxSub) ==
    LET outCol == (ttag \div OrigCycles(StrapA(pinb))) % NUM_COL
        colCycle == ttag % OrigCycles(StrapA(pinb))
    IN  << <<0, 0>>,
           <<Pow2(outCol), RowDataFrom(0, mx[outCol], maxSub[outCol], colCycle, StrapA(pinb))>> >>

\* driveLampMatrix(): the frames written by its two dataOutput calls
driveLampMatrix(ttag, pinb, mx, maxSub) ==
    LET outCol == ttag % NUM_COL
        colCycle == (ttag \div NUM_COL) % OrigCycles(StrapA(pinb))
    IN  << <<0, 0>>,
           <<Pow2(outCol), RowDataFrom(0, mx[outCol], maxSub[outCol], colCycle, StrapA(pinb))>> >>

\* a pass-through that writes the last sample in every tick
driveLampMatrixPassThroughAlways(lastCol, lastRow, ptCol, ptRow) ==
    << <<lastCol, lastRow>> >>

\* driveLampMatrixPassThrough(): the frames written, none when nothing changed
driveLampMatrixPassThrough(lastCol, lastRow, ptCol, ptRow) ==
    IF (lastCol # ptCol) \/ (lastRow # ptRow)
    THEN << <<lastCol, lastRow>> >>
    ELSE << >>

-----------------------------------------------------------------------------
(* Test mode input *)

\* a generator whose simulated column moves on with every tick
testModeInputFastCol(ttag, pinb) ==
    LET strapA == StrapA(pinb)
        col == ttag % NUM_COL
        tmp == ttag \div (500000 \div (IF strapA THEN TTAG_INT_A ELSE TTAG_INT_B))
    IN  Pow2(col) * 256 + NotByte(IF tmp % NUM_COL = col THEN 255 ELSE 0)

\* testModeInput(): the simulated 16 bit sample; replay is compiled out
testModeInput(ttag, pinb) ==
    LET strapA == StrapA(pinb)
        col == (ttag \div OrigCycles(strapA)) % NUM_COL
        m == (ttag \div (8000000 \div (IF strapA THEN TTAG_INT_A ELSE TTAG_INT_B))) % 256
        tmp == ttag \div (500000 \div (IF strapA THEN TTAG_INT_A ELSE TTAG_INT_B))
        mode == m % 7
        l == ((tmp * 4) % (NUM_COL * NUM_ROW)) % 256
        rowMask ==
            IF BitOf(pinb, 1) = 0 THEN 0
            ELSE CASE mode = 0 -> IF tmp % NUM_COL = col THEN 255 ELSE 0
                   [] mode = 1 -> Pow2(tmp % NUM_ROW)
                   [] mode = 2 -> IF tmp % NUM_COL # col THEN 255 ELSE 0
                   [] mode = 3 -> 255 - Pow2(tmp % NUM_ROW)
                   [] mode = 4 -> IF tmp % 2 = 1 THEN 255 ELSE 0
                   [] mode = 5 -> IF col % 2 = tmp % 2
                                  THEN (IF tmp % 3 # 0 THEN 170 ELSE 85)
                                  ELSE 0
                   [] OTHER -> IF l \div NUM_ROW = col THEN Pow2(l % NUM_COL) ELSE 0
    IN  Pow2(col) * 256 + NotByte(rowMask)

-----------------------------------------------------------------------------
(* Configuration records and byte streams the environment supplies *)

\* a valid record that differs from the default: instant glow for lamp [0][0],
\* the shortest and the longest glow durations, brightness codes 3, 0 and an
\* out-of-range 255
CfgA ==
    WithCrc([version |-> AFTERGLOW_CFG_VERSION,
             res |-> 0,
             lampGlowDur |-> [Matrix(DEFAULT_GLOWDUR \div GLOWDUR_CFG_SCALE) EXCEPT
                                 ![0] = [@ EXCEPT ![0] = 0, ![1] = 255],
                                 ![1] = [@ EXCEPT ![0] = 1]],
             lampBrightness |-> [Matrix(DEFAULT_BRIGHTNESS) EXCEPT
                                 ![0] = [@ EXCEPT ![0] = 3, ![1] = 255],
                                 ![1] = [@ EXCEPT ![0] = 0]],
             crc |-> <<0, 0>>])

\* a second valid record: every lamp fades in 100 scans at half brightness
CfgB ==
    WithCrc([version |-> AFTERGLOW_CFG_VERSION,
             res |-> 0,
             lampGlowDur |-> Matrix(20),
             lampBrightness |-> Matrix(4),
             crc |-> <<0, 0>>])

\* a record of another configuration version with a matching checksum
CfgBadVersion ==
    WithCrc([CfgA EXCEPT !.version = AFTERGLOW_CFG_VERSION + 1])

ImgDefault == CfgBytes(DefaultCfgRec)
ImgA == CfgBytes(CfgA)
ImgB == CfgBytes(CfgB)
ImgBadVersion == CfgBytes(CfgBadVersion)

\* the image of CfgA with one data byte changed and the checksum left as it was
ImgBadCrc == [ImgA EXCEPT ![CfgSize - 4] = 6]

\* an erased EEPROM
ImgBlank == [i \in 1 .. CfgSize |-> 255]

\* the checksums of the images above, each computed once by calculateCRC32
KnownImages == <<ImgDefault, ImgA, ImgB, ImgBadVersion, ImgBadCrc, ImgBlank>>

KnownCrcs ==
    <<calculateCRC32(ImgDefault, CfgSize - 4), calculateCRC32(ImgA, CfgSize - 4),
      calculateCRC32(ImgB, CfgSize - 4), calculateCRC32(ImgBadVersion, CfgSize - 4),
      calculateCRC32(ImgBadCrc, CfgSize - 4), calculateCRC32(ImgBlank, CfgSize - 4)>>

\* calculateCRC32 over the first cfgSize-4 bytes of an image: looked up when
\* the image is one of the above, computed otherwise
CrcOfImage(img) ==
    IF \E i \in 1 .. Len(KnownImages) : KnownImages[i] = img
    THEN KnownCrcs[CHOOSE i \in 1 .. Len(KnownImages) : KnownImages[i] = img]
    ELSE calculateCRC32(img, CfgSize - 4)

-----------------------------------------------------------------------------
(* Bounds *)

\* the uint32_t tick counter is read only through sTtag % 8, (sTtag / 8) % 8
\* and (sTtag / 8) % 4 outside test mode; the model wraps it at a divisor of
\* 2^32 that keeps these three values
TtagWrap == NUM_COL * ORIG_CYCLES_A

\* ticks explored after a start or re-arm of the timer
\* in test mode the pattern schedule reads the whole time tag, which is then
\* kept modulo 2^29 (a multiple of TtagWrap)
TtagWrapTest == 536870912

MaxTtag == 6

-----------------------------------------------------------------------------
(* Initial state: the statics as the C runtime zeroes them, before setup() *)

\* a message without payload on the serial port
Msg(m) == [msg |-> m, data |-> << >>]

ZeroCfg ==
    [version |-> 0, res |-> 0, lampGlowDur |-> Matrix(0),
     lampBrightness |-> Matrix(0), crc |-> <<0, 0>>]

NoIsr ==
    [inColMask |-> 0, inRowMask |-> 0, inCol |-> NUM_COL, validInput |-> FALSE,
     frames |-> << >>, goodCol |-> NUM_COL, prevGoodCol |-> NUM_COL]

NoRx == [stream |-> << >>, total |-> 0, size |-> 0]

NoHist == [v0 |-> 0, on |-> FALSE, n |-> 0]

InitWith(images, pinbs) ==
    /\ pc = "boot"
    /\ loopPc = "idle"
    /\ PINB \in pinbs
    /\ sMatrixState = Matrix(0)
    /\ sTtag = 0
    /\ sLastColMask = 0
    /\ sLastRowMask = 0
    /\ sConsistentSamples = 0
    /\ sLastUpdColMask = 0
    /\ sLastPassThroughColMask = 0
    /\ sLastPassThroughRowMask = 0
    /\ sCfg = ZeroCfg
    /\ sGlowSteps = Matrix(0)
    /\ sMaxSubcycle = Matrix(0)
    /\ sLastPINB = 0
    /\ eeprom \in images
    /\ OCR1A = 0
    /\ OCIE1A = FALSE
    /\ wdtOn = FALSE
    /\ OE = 1
    /\ isr = NoIsr
    /\ rx = NoRx
    /\ serialTx = Msg("none")
    /\ hist = NoHist

-----------------------------------------------------------------------------
(* setup() *)

\* a load that accepts any version with a matching checksum
loadCfgValidAnyVersion(img) ==
    CrcOfImage(img) = CfgOfBytes(img).crc

\* loadCfg(): the record read from the EEPROM is valid when its version is
\* the expected one and its checksum matches
loadCfgValid(img) ==
    /\ CfgOfBytes(img).version = AFTERGLOW_CFG_VERSION
    /\ CrcOfImage(img) = CfgOfBytes(img).crc

\* OCR1A as timerSetup() sets it
TimerCompare(pinb) == IF StrapA(pinb) THEN TTAG_INT_A * 16 ELSE TTAG_INT_B * 16

\* setup(): clear the matrix, load the configuration or fall back to the
\* default and store it, apply it, arm the timer and the watchdog
Setup ==
    /\ pc = "boot"
    /\ pc' = "run"
    /\ sMatrixState' = Matrix(0)
    /\ LET cfg == IF loadCfgValid(eeprom) THEN CfgOfBytes(eeprom) ELSE DefaultCfgRec
       IN  /\ sCfg' = cfg
           /\ eeprom' = IF loadCfgValid(eeprom) THEN eeprom ELSE CfgBytes(DefaultCfgRec)
           /\ sGlowSteps' = applyCfgGlowSteps(cfg)
           /\ sMaxSubcycle' = applyCfgMaxSubcycle(cfg, PINB)
    /\ serialTx' = Msg("banner")
    /\ OCR1A' = TimerCompare(PINB)
    /\ OCIE1A' = TRUE
    /\ wdtOn' = TRUE
    /\ OE' = 1
    /\ sLastPINB' = PINB
    /\ UNCHANGED <<loopPc, PINB, sTtag, sLastColMask, sLastRowMask, sConsistentSamples,
                   sLastUpdColMask, sLastPassThroughColMask, sLastPassThroughRowMask,
                   isr, rx, hist>>

-----------------------------------------------------------------------------
(* ISR(TIMER1_COMPA_vect).  The handler runs with interrupts off, so a tick *)
(* is one step; inside it the statements run in program order, each step    *)
(* below taking the handler's state (the statics it touches and its locals) *)
(* to the state after it.                                                    *)

\* time is running: sTtag++
IsrEnter(ts) ==
    [ts EXCEPT !.ttag = (ts.ttag + 1) % (IF TestMode(ts.pinb) THEN TtagWrapTest ELSE TtagWrap),
               !.frames = << >>]

\* drive the lamp matrix: pass-through or afterglow mode
IsrDrive(ts) ==
    IF PassThrough(ts.pinb)
    THEN LET out == driveLampMatrixPassThrough(ts.lastCol, ts.lastRow, ts.ptCol, ts.ptRow)
         IN  IF out # << >>
             THEN [ts EXCEPT !.frames = out, !.oe = 0,
                             !.ptCol = ts.lastCol, !.ptRow = ts.lastRow]
             ELSE ts
    ELSE [ts EXCEPT !.frames = driveLampMatrix(ts.ttag, ts.pinb, ts.mx, ts.maxSub),
                    !.oe = 0]

\* 74HC165 sampling, replaced by the simulation in test mode; the column and
\* row masks and the column index
IsrSample(ts, sampled) ==
    LET inData == IF TestMode(ts.pinb) THEN testModeInput(ts.ttag, ts.pinb) ELSE sampled
    IN  [ts EXCEPT !.inColMask = inData \div 256,
                   !.inRowMask = NotByte(inData),
                   !.inCol = ColOfMask(inData \div 256),
                   !.validInput = (ColOfMask(inData \div 256) # NUM_COL)]

\* validInput &= updateValid(inColMask, inRowMask)
IsrValidate(ts) ==
    LET uv == updateValid(ts.inColMask, ts.inRowMask, ts.cons, ts.lastUpd,
                          ts.lastCol, ts.lastRow)
    IN  [ts EXCEPT !.cons = uv.cons, !.lastUpd = uv.lastUpd,
                   !.validInput = ts.validInput /\ uv.valid]

\* the update for every sample that decodes to a column, valid or not
IsrIntegrateAlways(ts) ==
    IF ts.inCol # NUM_COL
    THEN [ts EXCEPT !.mx = updateCol(ts.mx, ts.steps, ts.inCol, ts.inRowMask),
                    !.prevGoodCol = ts.goodCol, !.goodCol = ts.inCol]
    ELSE ts

\* update only with a valid input (sLastGoodCol is the debug build's record
\* of the column updated last)
IsrIntegrate(ts) ==
    IF ts.validInput
    THEN [ts EXCEPT !.mx = updateCol(ts.mx, ts.steps, ts.inCol, ts.inRowMask),
                    !.prevGoodCol = ts.goodCol, !.goodCol = ts.inCol]
    ELSE ts

\* remember the last column and row samples
IsrRemember(ts) == [ts EXCEPT !.lastCol = ts.inColMask, !.lastRow = ts.inRowMask]

\* the handler with the output driven after the matrix update
IsrBodyDriveLast(ts, sampled) ==
    CHOOSE done \in
        { IsrRemember(t5) : t5 \in
        { IsrDrive(t4) : t4 \in
        { IsrIntegrate(t3) : t3 \in
        { IsrValidate(t2) : t2 \in
        { IsrSample(t1, sampled) : t1 \in
        { IsrEnter(ts) } } } } } } : TRUE

\* the handler, in program order from the innermost line outwards: count,
\* drive, sample, validate, integrate, remember
IsrBody(ts, sampled) ==
    CHOOSE done \in
        { IsrRemember(t5) : t5 \in
        { IsrIntegrate(t4) : t4 \in
        { IsrValidate(t3) : t3 \in
        { IsrSample(t2, sampled) : t2 \in
        { IsrDrive(t1) : t1 \in
        { IsrEnter(ts) } } } } } } : TRUE

\* the state the handler starts from
IsrState ==
    [ttag |-> sTtag, pinb |-> PINB, mx |-> sMatrixState, steps |-> sGlowSteps,
     maxSub |-> sMaxSubcycle, lastCol |-> sLastColMask, lastRow |-> sLastRowMask,
     cons |-> sConsistentSamples, lastUpd |-> sLastUpdColMask,
     ptCol |-> sLastPassThroughColMask, ptRow |-> sLastPassThroughRowMask,
     oe |-> OE, frames |-> << >>, inColMask |-> isr.inColMask,
     inRowMask |-> isr.inRowMask, inCol |-> isr.inCol, validInput |-> isr.validInput,
     goodCol |-> isr.goodCol, prevGoodCol |-> isr.prevGoodCol]

\* one tick with the 16 bit value sampleInput() returns
\* the background loop is between noInterrupts() and interrupts()
IntsOff == loopPc \in {"mode", "mode2"}

TickCore(sampled, maxT) ==
    /\ pc = "run"
    /\ OCIE1A
    /\ ~IntsOff
    /\ sTtag < maxT
    /\ \E ts \in {IsrBody(IsrState, sampled)} :
           /\ sTtag' = ts.ttag
           /\ sLastPassThroughColMask' = ts.ptCol
           /\ sLastPassThroughRowMask' = ts.ptRow
           /\ OE' = ts.oe
           /\ sConsistentSamples' = ts.cons
           /\ sLastUpdColMask' = ts.lastUpd
           /\ sMatrixState' = ts.mx
           /\ sLastColMask' = ts.lastCol
           /\ sLastRowMask' = ts.lastRow
           /\ isr' = [inColMask |-> ts.inColMask, inRowMask |-> ts.inRowMask,
                      inCol |-> ts.inCol, validInput |-> ts.validInput,
                      frames |-> ts.frames, goodCol |-> ts.goodCol,
                      prevGoodCol |-> ts.prevGoodCol]
    /\ UNCHANGED <<pc, loopPc, PINB, sCfg, sGlowSteps, sMaxSubcycle, sLastPINB, eeprom,
                   OCR1A, OCIE1A, wdtOn, rx, serialTx>>

\* one timer interrupt with the input register showing 'sampled'
Tick(sampled, maxT) == TickCore(sampled, maxT) /\ UNCHANGED hist

-----------------------------------------------------------------------------
(* loop(): the serial commands and the timing mode watch *)

\* "AGV:" version poll
CmdVersionPoll ==
    /\ pc = "run"
    /\ loopPc = "idle"
    /\ serialTx' = [msg |-> "AGV", data |-> <<AFTERGLOW_VERSION, AFTERGLOW_CFG_VERSION>>]
    /\ UNCHANGED <<pc, loopPc, PINB, sMatrixState, sTtag, sLastColMask, sLastRowMask,
                   sConsistentSamples, sLastUpdColMask, sLastPassThroughColMask,
                   sLastPassThroughRowMask, sCfg, sGlowSteps, sMaxSubcycle, sLastPINB,
                   eeprom, OCR1A, OCIE1A, wdtOn, OE, isr, rx, hist>>

\* "AGCP:" configuration poll, sendCfg(): the bytes of sCfg
CmdCfgPoll ==
    /\ pc = "run"
    /\ loopPc = "idle"
    /\ serialTx' = [msg |-> "cfg", data |-> CfgBytes(sCfg)]
    /\ UNCHANGED <<pc, loopPc, PINB, sMatrixState, sTtag, sLastColMask, sLastRowMask,
                   sConsistentSamples, sLastUpdColMask, sLastPassThroughColMask,
                   sLastPassThroughRowMask, sCfg, sGlowSteps, sMaxSubcycle, sLastPINB,
                   eeprom, OCR1A, OCIE1A, wdtOn, OE, isr, rx, hist>>

\* a configuration reset that also clears the lamp matrix
CmdCfgDefaultClearMx ==
    /\ pc = "run"
    /\ loopPc = "idle"
    /\ sCfg' = DefaultCfgRec
    /\ sMatrixState' = Matrix(0)
    /\ serialTx' = Msg("AGCACK")
    /\ UNCHANGED <<pc, loopPc, PINB, sTtag, sLastColMask, sLastRowMask,
                   sConsistentSamples, sLastUpdColMask, sLastPassThroughColMask,
                   sLastPassThroughRowMask, sGlowSteps, sMaxSubcycle, sLastPINB,
                   eeprom, OCR1A, OCIE1A, wdtOn, OE, isr, rx, hist>>

\* "AGCD:" configuration reset, defaultCfg(): setDefaultCfg() and the
\* acknowledge, nothing else
CmdCfgDefault ==
    /\ pc = "run"
    /\ loopPc = "idle"
    /\ sCfg' = DefaultCfgRec
    /\ serialTx' = Msg("AGCACK")
    /\ UNCHANGED <<pc, loopPc, PINB, sMatrixState, sTtag, sLastColMask, sLastRowMask,
                   sConsistentSamples, sLastUpdColMask, sLastPassThroughColMask,
                   sLastPassThroughRowMask, sGlowSteps, sMaxSubcycle, sLastPINB,
                   eeprom, OCR1A, OCIE1A, wdtOn, OE, isr, rx, hist>>

\* a configuration write that enters receiveCfg() without stop()
CmdCfgSaveNoStop(stream, total) ==
    /\ pc = "run"
    /\ loopPc = "idle"
    /\ loopPc' = "rx"
    /\ rx' = [stream |-> stream, total |-> total, size |-> 0]
    /\ UNCHANGED <<pc, PINB, sMatrixState, sTtag, sLastColMask, sLastRowMask,
                   sConsistentSamples, sLastUpdColMask, sLastPassThroughColMask,
                   sLastPassThroughRowMask, sCfg, sGlowSteps, sMaxSubcycle, sLastPINB,
                   eeprom, OCR1A, OCIE1A, wdtOn, OE, isr, serialTx, hist>>

\* "AGCS:" configuration write, first part: stop() and the entry of
\* receiveCfg(); the sender will deliver the first `total` bytes of `stream`
CmdCfgSave(stream, total) ==
    /\ pc = "run"
    /\ loopPc = "idle"
    /\ loopPc' = "rx"
    /\ wdtOn' = FALSE
    /\ OCIE1A' = FALSE
    /\ OE' = 1
    /\ rx' = [stream |-> stream, total |-> total, size |-> 0]
    /\ UNCHANGED <<pc, PINB, sMatrixState, sTtag, sLastColMask, sLastRowMask,
                   sConsistentSamples, sLastUpdColMask, sLastPassThroughColMask,
                   sLastPassThroughRowMask, sCfg, sGlowSteps, sMaxSubcycle, sLastPINB,
                   eeprom, OCR1A, isr, serialTx, hist>>

\* receiveCfg(), one pass of the read loop: data ready, wait, then read what
\* is available, at most AG_CMD_WRITE_BUF bytes and no more than the record
RxRead ==
    /\ pc = "run"
    /\ loopPc = "rx"
    /\ rx.size < CfgSize
    /\ LET readBytes == Min(AG_CMD_WRITE_BUF, Min(rx.total - rx.size, CfgSize - rx.size))
       IN  rx' = [rx EXCEPT !.size = rx.size + readBytes]
    /\ serialTx' = Msg("AGDR")
    /\ UNCHANGED <<pc, loopPc, PINB, sMatrixState, sTtag, sLastColMask, sLastRowMask,
                   sConsistentSamples, sLastUpdColMask, sLastPassThroughColMask,
                   sLastPassThroughRowMask, sCfg, sGlowSteps, sMaxSubcycle, sLastPINB,
                   eeprom, OCR1A, OCIE1A, wdtOn, OE, isr, hist>>

\* a receiveCfg() that stores the record before it compares the checksum
RxDoneStoreFirst ==
    /\ pc = "run"
    /\ loopPc = "rx"
    /\ rx.size = CfgSize
    /\ LET img == SubSeq(rx.stream, 1, CfgSize)
           cfg == CfgOfBytes(img)
           res == (rx.size = CfgSize) /\ (CrcOfImage(img) = cfg.crc)
       IN  /\ sCfg' = IF res THEN cfg ELSE sCfg
           /\ sGlowSteps' = IF res THEN applyCfgGlowSteps(cfg) ELSE sGlowSteps
           /\ sMaxSubcycle' = IF res THEN applyCfgMaxSubcycle(cfg, PINB) ELSE sMaxSubcycle
           /\ eeprom' = CfgBytes(cfg)
           /\ serialTx' = Msg(IF res THEN "AGCACK" ELSE "AGCNACK")
    /\ loopPc' = "idle"
    /\ rx' = NoRx
    /\ OCIE1A' = TRUE
    /\ wdtOn' = TRUE
    /\ UNCHANGED <<pc, PINB, sMatrixState, sTtag, sLastColMask, sLastRowMask,
                   sConsistentSamples, sLastUpdColMask, sLastPassThroughColMask,
                   sLastPassThroughRowMask, sLastPINB, OCR1A, OE, isr, hist>>

\* receiveCfg() after the read loop, then start(): on a matching checksum the
\* record replaces sCfg, is applied and stored, and ACK is sent, else NACK
RxDone ==
    /\ pc = "run"
    /\ loopPc = "rx"
    /\ rx.size = CfgSize
    /\ LET img == SubSeq(rx.stream, 1, CfgSize)
           cfg == CfgOfBytes(img)
           res == (rx.size = CfgSize) /\ (CrcOfImage(img) = cfg.crc)
       IN  /\ sCfg' = IF res THEN cfg ELSE sCfg
           /\ sGlowSteps' = IF res THEN applyCfgGlowSteps(cfg) ELSE sGlowSteps
           /\ sMaxSubcycle' = IF res THEN applyCfgMaxSubcycle(cfg, PINB) ELSE sMaxSubcycle
           /\ eeprom' = IF res THEN CfgBytes(cfg) ELSE eeprom
           /\ serialTx' = Msg(IF res THEN "AGCACK" ELSE "AGCNACK")
    /\ loopPc' = "idle"
    /\ rx' = NoRx
    /\ OCIE1A' = TRUE
    /\ wdtOn' = TRUE
    /\ UNCHANGED <<pc, PINB, sMatrixState, sTtag, sLastColMask, sLastRowMask,
                   sConsistentSamples, sLastUpdColMask, sLastPassThroughColMask,
                   sLastPassThroughRowMask, sLastPINB, OCR1A, OE, isr, hist>>

\* the watch for interval configuration changes at the end of loop(): the
\* strap differs from the one seen last; noInterrupts()
ModeChange ==
    /\ pc = "run"
    /\ loopPc = "idle"
    /\ BitOf(PINB, 2) # BitOf(sLastPINB, 2)
    /\ loopPc' = "mode"
    /\ UNCHANGED <<pc, PINB, sMatrixState, sTtag, sLastColMask, sLastRowMask,
                   sConsistentSamples, sLastUpdColMask, sLastPassThroughColMask,
                   sLastPassThroughRowMask, sCfg, sGlowSteps, sMaxSubcycle, sLastPINB,
                   eeprom, OCR1A, OCIE1A, wdtOn, OE, isr, rx, serialTx, hist>>

\* timerSetup() in the watch: OCR1A from the strap as PINB shows it now
ModeTimerSetup ==
    /\ pc = "run"
    /\ loopPc = "mode"
    /\ loopPc' = "mode2"
    /\ OCR1A' = TimerCompare(PINB)
    /\ OCIE1A' = TRUE
    /\ UNCHANGED <<pc, PINB, sMatrixState, sTtag, sLastColMask, sLastRowMask,
                   sConsistentSamples, sLastUpdColMask, sLastPassThroughColMask,
                   sLastPassThroughRowMask, sCfg, sGlowSteps, sMaxSubcycle, sLastPINB,
                   eeprom, wdtOn, OE, isr, rx, serialTx, hist>>

\* sTtag = 0, sLastPINB = PINB (read again), interrupts()
ModeRecord ==
    /\ pc = "run"
    /\ loopPc = "mode2"
    /\ loopPc' = "idle"
    /\ sTtag' = 0
    /\ sLastPINB' = PINB
    /\ UNCHANGED <<pc, PINB, sMatrixState, sLastColMask, sLastRowMask,
                   sConsistentSamples, sLastUpdColMask, sLastPassThroughColMask,
                   sLastPassThroughRowMask, sCfg, sGlowSteps, sMaxSubcycle,
                   eeprom, OCR1A, OCIE1A, wdtOn, OE, isr, rx, serialTx, hist>>

-----------------------------------------------------------------------------
(* Environment *)

\* a jumper on port B is moved: bit k of PINB changes
JumperChange(k) ==
    /\ PINB' = IF BitOf(PINB, k) = 1 THEN PINB - Pow2(k) ELSE PINB + Pow2(k)
    /\ UNCHANGED <<pc, loopPc, sMatrixState, sTtag, sLastColMask, sLastRowMask,
                   sConsistentSamples, sLastUpdColMask, sLastPassThroughColMask,
                   sLastPassThroughRowMask, sCfg, sGlowSteps, sMaxSubcycle, sLastPINB,
                   eeprom, OCR1A, OCIE1A, wdtOn, OE, isr, rx, serialTx, hist>>

-----------------------------------------------------------------------------
(* Spec: the realtime tick.  The EEPROM holds CfgA, the input register      *)
(* shows columns 1 and 2, a blank column byte or two columns at once, with  *)
(* all rows off or row 0 on, and the pass-through jumper may be moved.      *)

\* PINB with all four jumpers open: afterglow mode, timing mode A, no test
PinbOpen == 15

\* the 16 bit samples: column byte * 256 + row byte (a set row bit means off)
TickSamples == {c * 256 + r : c \in {2, 4, 0, 6}, r \in {255, 254}}

Init == InitWith({ImgA}, {PinbOpen})

Next ==
    \/ Setup
    \/ \E sampled \in TickSamples : Tick(sampled, MaxTtag)
    \/ JumperChange(3)

Spec == Init /\ [][Next]_vars

-----------------------------------------------------------------------------
(* Properties of the realtime tick *)

\* exactly one bit of the byte is set
OneHot(mask) == Cardinality({k \in 0 .. 7 : BitOf(mask, k) = 1}) = 1

\* a step is a tick: only the tick and the timing mode watch write sTtag,
\* and the watch always changes sLastPINB
TickStep == sTtag' = (sTtag + 1) % TtagWrap /\ sLastPINB' = sLastPINB

\* C1: in every tick that invokes updateCol (or changes the matrix at all)
\* the column mask is one-hot and the (column mask, row mask) pair equals the
\* raw pair of the tick before, so a pair seen for one tick only never
\* updates the matrix
C1_AcceptedFrameSeenTwice ==
    [][(TickStep /\ (isr'.validInput \/ sMatrixState' # sMatrixState))
        => /\ OneHot(isr'.inColMask)
           /\ isr'.inColMask = sLastColMask
           /\ isr'.inRowMask = sLastRowMask]_vars

\* C1 witness: a tick accepted a frame and updateCol raised a counter
C1_Witness ==
    /\ isr.validInput
    /\ isr.inColMask = 4
    /\ sMatrixState[2][0] > 0

\* C2 (as claimed): two successive invocations of updateCol never carry the
\* same column index
C2_NoRepeatedColumn == isr.validInput => isr.inCol # isr.prevGoodCol

\* C8: the frames a tick emits are those of the state the tick started in:
\* in afterglow mode the blank frame, then the frame of output column
\* sTtag % 8 with each row bit taken from the counters as the previous tick
\* left them; in pass-through mode nothing or the previous tick's raw sample
C8_FrameFromPreviousState ==
    [][TickStep =>
        IF PassThrough(PINB)
        THEN isr'.frames \in {<< >>, << <<sLastColMask, sLastRowMask>> >>}
        ELSE LET outCol == sTtag' % NUM_COL
                 colCycle == (sTtag' \div NUM_COL) % OrigCycles(StrapA(PINB))
             IN  /\ Len(isr'.frames) = 2
                 /\ isr'.frames[1] = <<0, 0>>
                 /\ isr'.frames[2][1] = Pow2(outCol)
                 /\ \A r \in Rows :
                        (BitOf(isr'.frames[2][2], r) = 1)
                        <=> LampOn(sMatrixState[outCol][r], sMaxSubcycle[outCol][r],
                                   colCycle, StrapA(PINB))]_vars

\* C8 witness: a tick drove output column 2 with row 0 off and then, in the
\* same tick, accepted a sample that lit lamp [2][0]
C8_Witness ==
    /\ isr.validInput
    /\ isr.inCol = 2
    /\ sTtag % NUM_COL = 2
    /\ Len(isr.frames) = 2
    /\ BitOf(isr.frames[2][2], 0) = 0
    /\ sMatrixState[2][0] > 0

\* C9: a tick whose frame is rejected leaves all 64 counters unchanged
C9_RejectedFrameNoUpdate ==
    [][(TickStep /\ ~isr'.validInput) => sMatrixState' = sMatrixState]_vars

\* C9 witness: with a counter already raised, a tick sampled the column
\* accepted last, with another row mask, and was rejected as already handled
C9_Witness ==
    /\ sMatrixState[2][0] > 0
    /\ ~isr.validInput
    /\ isr.inColMask = 4
    /\ sLastUpdColMask = 4
    /\ isr.inRowMask = 0

-----------------------------------------------------------------------------
(* SpecCfg: the configuration lifecycle.  The EEPROM starts with a valid    *)
(* record, erased, with a wrong checksum or with a wrong version; the host  *)
(* sends every command, writes complete and short streams, and the timing   *)
(* jumper may be moved.                                                     *)

\* ticks explored after a start or re-arm of the timer
MaxTtagCfg == 2

\* the bytes a sender delivers when it stops before the record is complete
ShortLen == 100

InitCfg == InitWith({ImgA, ImgBlank, ImgBadCrc, ImgBadVersion}, {15, 11})

NextCfg ==
    \/ Setup
    \/ Tick(4 * 256 + 254, MaxTtagCfg)
    \/ CmdVersionPoll
    \/ CmdCfgPoll
    \/ CmdCfgDefault
    \/ \E stream \in {ImgB, ImgBadCrc, ImgBadVersion}, total \in {CfgSize, ShortLen} :
            CmdCfgSave(stream, total)
    \/ RxRead
    \/ RxDone
    \/ JumperChange(2)
    \/ ModeChange
    \/ ModeTimerSetup
    \/ ModeRecord

SpecCfg == InitCfg /\ [][NextCfg]_vars

\* C10 (as claimed): every step that replaces the configuration record
\* leaves the glow steps and the maximum subcycles as applyCfg derives them
\* from the new record
C10_ReplacementRecomputes ==
    [][(sCfg' # sCfg) =>
        /\ sGlowSteps' = applyCfgGlowSteps(sCfg')
        /\ sMaxSubcycle' = applyCfgMaxSubcycle(sCfg', PINB')]_vars

-----------------------------------------------------------------------------
(* SpecDecode: column decoding.  After setup the input register shows any   *)
(* of the 256 column bytes and holds it for the following ticks.            *)

\* ticks explored
MaxTtagDecode == 3

NextDecode ==
    \/ Setup
    \/ \E mask \in (IF sTtag = 0 THEN 0 .. 255 ELSE {sLastColMask}) :
            Tick(mask * 256 + 254, MaxTtagDecode)

SpecDecode == Init /\ [][NextDecode]_vars

\* C4: after a tick, the column mask 1 << k has given column index k, and
\* any other mask has given no column (NUM_COL) and an invalid input,
\* whatever updateValid returned
C4_ColumnDecoding ==
    (pc = "run" /\ sTtag > 0) =>
        /\ \A k \in Cols : (isr.inColMask = Pow2(k)) => (isr.inCol = k)
        /\ ~OneHot(isr.inColMask) => (isr.inCol = NUM_COL /\ ~isr.validInput)
        /\ isr.validInput => sMatrixState[isr.inCol][0] > 0

\* C4 witness: the two-column mask 0xC0 was sampled twice, updateValid
\* accepted it, and the tick still reported no column and an invalid input
C4_Witness ==
    /\ isr.inColMask = 192
    /\ sLastUpdColMask = 192
    /\ sConsistentSamples = 1
    /\ isr.inCol = NUM_COL
    /\ ~isr.validInput
    /\ sMatrixState = Matrix(0)

-----------------------------------------------------------------------------
(* SpecMx: the integrator alone.  Lamp [0][0] starts from a value of        *)
(* MxStarts with a glow step of MxSteps, and updateCol is applied to column *)
(* 0 with row 0 on or off.  hist follows the runs of equal updates that     *)
(* start at a rail: v0 is the rail (the start value before the first       *)
(* update, -1 once a run started elsewhere), on the direction of the last   *)
(* (at the start: of the next) update, n the length (-1 when not followed). *)

MxStarts == {0, 1, 7487, 7488, 7489, 32767, 32768, 65534, 65535}

MxSteps == {0, 1, 7, 408, 65535 \div 100, 7488, 21845, 32768, 39320, 65534, 65535}

\* updates explored beyond saturation
MxExtra == 2

\* ceil(65535 / step)
CeilSteps(step) == (65535 + step - 1) \div step

RunLimit(step) == IF step = 0 THEN MxExtra ELSE CeilSteps(step) + MxExtra

AtRail(v, on) == (on /\ v = 0) \/ (~on /\ v = 65535)

\* the device running after setup(), with the given straps, configuration,
\* brightness counters and glow steps
Running(pinb, cfg, mx, steps) ==
    /\ pc = "run"
    /\ loopPc = "idle"
    /\ PINB = pinb
    /\ sMatrixState = mx
    /\ sTtag = 0
    /\ sLastColMask = 0
    /\ sLastRowMask = 0
    /\ sConsistentSamples = 0
    /\ sLastUpdColMask = 0
    /\ sLastPassThroughColMask = 0
    /\ sLastPassThroughRowMask = 0
    /\ sCfg = cfg
    /\ sGlowSteps = steps
    /\ sMaxSubcycle = applyCfgMaxSubcycle(cfg, pinb)
    /\ sLastPINB = pinb
    /\ eeprom = CfgBytes(cfg)
    /\ OCR1A = TimerCompare(pinb)
    /\ OCIE1A = TRUE
    /\ wdtOn = TRUE
    /\ OE = 1
    /\ isr = NoIsr
    /\ rx = NoRx
    /\ serialTx = Msg("banner")

InitMx ==
    /\ \E v \in MxStarts, step \in MxSteps :
         Running(PinbOpen, DefaultCfgRec,
                 [Matrix(0) EXCEPT ![0] = [@ EXCEPT ![0] = v]],
                 [Matrix(0) EXCEPT ![0] = [@ EXCEPT ![0] = step]])
    /\ \E on \in BOOLEAN :
         hist = [v0 |-> sMatrixState[0][0], on |-> on,
                 n |-> IF AtRail(sMatrixState[0][0], on) THEN 0 ELSE -1]

\* updateCol(0, rowMask) with row 0 on (rowMask 1) or off (rowMask 0)
MxUpdate(on) ==
    /\ (hist.on = on /\ hist.n >= 0) => hist.n < RunLimit(sGlowSteps[0][0])
    /\ sMatrixState' = updateCol(sMatrixState, sGlowSteps, 0, IF on THEN 1 ELSE 0)
    /\ hist' = IF hist.on = on /\ hist.n >= 0
               THEN [hist EXCEPT !.n = hist.n + 1]
               ELSE IF hist.on # on /\ AtRail(sMatrixState[0][0], on)
               THEN [v0 |-> sMatrixState[0][0], on |-> on, n |-> 1]
               ELSE [v0 |-> -1, on |-> on, n |-> -1]
    /\ UNCHANGED <<pc, loopPc, PINB, sTtag, sLastColMask, sLastRowMask,
                   sConsistentSamples, sLastUpdColMask, sLastPassThroughColMask,
                   sLastPassThroughRowMask, sCfg, sGlowSteps, sMaxSubcycle, sLastPINB,
                   eeprom, OCR1A, OCIE1A, wdtOn, OE, isr, rx, serialTx>>

NextMx == MxUpdate(TRUE) \/ MxUpdate(FALSE)

SpecMx == InitMx /\ [][NextMx]_vars

\* C5: with a step S >= 1, a run of 'on' updates from 0 is at 65535 exactly
\* from its ceil(65535/S)-th update on, and a run of 'off' updates from 65535
\* is at 0 exactly from its ceil(65535/S)-th update on
C5_SaturatesAfterCeil ==
    (hist.n >= 0 /\ sGlowSteps[0][0] >= 1) =>
        /\ (hist.on /\ hist.v0 = 0) =>
              ((sMatrixState[0][0] = 65535) <=> (hist.n >= CeilSteps(sGlowSteps[0][0])))
        /\ (~hist.on /\ hist.v0 = 65535) =>
              ((sMatrixState[0][0] = 0) <=> (hist.n >= CeilSteps(sGlowSteps[0][0])))

\* C5 witness: with step 7488 the counter rose from 0 to 65535, fell back to
\* 0 in a run of ceil(65535/7488) = 9 'off' updates and stayed there for
\* MxExtra more
C5_Witness ==
    /\ sGlowSteps[0][0] = 7488
    /\ ~hist.on
    /\ hist.v0 = 65535
    /\ hist.n = 9 + MxExtra
    /\ sMatrixState[0][0] = 0

\* C6: an 'on' update yields min(V + S, 65535), never less than V, an 'off'
\* update yields max(V - S, 0), never more than V, and the counter stays in
\* 0..65535
C6_NoWrap ==
    [][LET v == sMatrixState[0][0]
           w == sMatrixState'[0][0]
           step == sGlowSteps[0][0]
       IN  /\ w \in 0 .. 65535
           /\ hist'.on => (w = Min(v + step, 65535) /\ w >= v)
           /\ ~hist'.on => (w = (IF v - step > 0 THEN v - step ELSE 0) /\ w <= v)]_vars

\* C6 witness: step 65534 took the counter from 32768 up to the rail (the
\* 16 bit sum would have wrapped to 32766)
C6_Witness ==
    /\ sGlowSteps[0][0] = 65534
    /\ hist.on
    /\ hist.v0 = -1
    /\ sMatrixState[0][0] = 65535

-----------------------------------------------------------------------------
(* SpecPwm: the PWM driver.  The device runs in timing mode A or B with a   *)
(* brightness of PwmBrightness configured for lamp [1][0] and its counter   *)
(* at a value of PwmValues; the input shows no column, so the counters are  *)
(* held, and the timer ticks through the sub-cycles.  hist counts the       *)
(* sub-cycles of the current window in which row 0 of column 1 was emitted  *)
(* ON: v0 is the counter, on the last emitted bit, n the count.             *)

PwmValues == {0, 1, 8191, 8192, 16383, 16384, 32767, 32768, 49151, 49152, 57343, 57344, 65535}

PwmBrightness == {0, 1, 2, 3, 6, 7, 255}

\* the lamp followed
PwmCol == 1

PwmCfg(b) ==
    WithCrc([DefaultCfgRec EXCEPT
                !.lampBrightness = [@ EXCEPT ![PwmCol] = [@ EXCEPT ![0] = b]]])

InitPwm ==
    /\ \E cfg \in {PwmCfg(b) : b \in PwmBrightness} :
         \E v \in PwmValues, pinb \in {15, 11} :
            Running(pinb, cfg, [Matrix(0) EXCEPT ![PwmCol] = [@ EXCEPT ![0] = v]],
                    applyCfgGlowSteps(cfg))
    /\ hist = [v0 |-> sMatrixState[PwmCol][0], on |-> FALSE, n |-> 0]

\* the sub-cycle index of the tick with time tag ttag
ColCycle(ttag, pinb) == (ttag \div NUM_COL) % OrigCycles(StrapA(pinb))

\* a tick with no column strobe on the input
PwmTick ==
    /\ TickCore(255, TtagWrap)
    /\ hist' = IF isr'.frames[2][1] = Pow2(PwmCol)
               THEN [v0 |-> sMatrixState'[PwmCol][0],
                     on |-> BitOf(isr'.frames[2][2], 0) = 1,
                     n  |-> (IF ColCycle(sTtag', PINB) = 0 THEN 0 ELSE hist.n)
                            + BitOf(isr'.frames[2][2], 0)]
               ELSE hist

NextPwm == PwmTick

SpecPwm == InitPwm /\ [][NextPwm]_vars

\* the tick just taken emitted the last sub-cycle of a window of column PwmCol
WindowDone ==
    /\ isr.frames # << >>
    /\ sTtag % NUM_COL = PwmCol
    /\ ColCycle(sTtag, PINB) = OrigCycles(StrapA(PINB)) - 1

\* min(V / (65536/N), M) + 1, clamped to [0, N]
DutyFormula(v, m, n) == Min(Min(v \div (65536 \div n), m) + 1, n)

\* C7 as stated: over the N sub-cycles of a window the lamp is emitted ON in
\* min(V / (65536/N), M) + 1 of them (at most N), for every V in 0..65535
C7_DutyAsStated ==
    WindowDone =>
        hist.n = DutyFormula(hist.v0, sMaxSubcycle[PwmCol][0], OrigCycles(StrapA(PINB)))

\* C7 amended: over the N sub-cycles of a window the lamp is emitted ON in
\* min(V / (65536/N), M) + 1 of them (at most N) when V is in 1..65535, and
\* in none when V is 0; a lamp whose counter is 0 is never emitted ON
C7_DutyNonzero ==
    /\ WindowDone =>
         hist.n = IF hist.v0 = 0 THEN 0
                  ELSE DutyFormula(hist.v0, sMaxSubcycle[PwmCol][0], OrigCycles(StrapA(PINB)))
    /\ (isr.frames # << >>) =>
         \A r \in Rows : \A c \in Cols :
            (isr.frames[2][1] = Pow2(c) /\ sMatrixState[c][r] = 0)
                => BitOf(isr.frames[2][2], r) = 0

\* C7 witness: in mode B with the counter at 65535 and a maximum sub-cycle
\* of 1 (brightness 3), the window of 4 sub-cycles is over and the lamp was
\* ON in 2 of them
C7_Witness ==
    /\ WindowDone
    /\ ~StrapA(PINB)
    /\ hist.v0 = 65535
    /\ sMaxSubcycle[PwmCol][0] = 1
    /\ hist.n = 2
    /\ ~hist.on

-----------------------------------------------------------------------------
(* SpecLive: the lamp matrix scanned by the machine.  The input shows the   *)
(* columns 0..7 in turn, each column strobe with its row byte for 2 to      *)
(* MaxHold ticks, with up to MaxBlank ticks of no strobe between two        *)
(* columns.  hist is the input source: v0 the column shown last, on whether *)
(* a strobe (and not the gap) is shown, n the ticks it has been shown.      *)
(* The timer interrupt keeps firing (weak fairness).                        *)

MaxHold == 3

MaxBlank == 2

\* the row bytes the machine shows with column c: lamp [0][0] (which the
\* stored configuration lets follow at once) goes on and off, row 0 of the
\* other columns is lit
LiveRows(c) == IF c = 0 THEN {254, 255} ELSE {254}

InitLive == InitWith({ImgA}, {PinbOpen})

\* the input still shows what it showed at the last tick
LiveHold ==
    /\ hist.n >= 1
    /\ hist.n < (IF hist.on THEN MaxHold ELSE MaxBlank)
    /\ TickCore(sLastColMask * 256 + NotByte(sLastRowMask), TtagWrap)
    /\ hist' = [hist EXCEPT !.n = hist.n + 1]

\* the strobe has been shown for two ticks or more and goes away
LiveBlank ==
    /\ hist.on
    /\ hist.n >= 2
    /\ TickCore(255, TtagWrap)
    /\ hist' = [hist EXCEPT !.on = FALSE, !.n = 1]

\* the next column's strobe appears
LiveAdvance ==
    /\ hist.on => hist.n >= 2
    /\ \E c \in {IF hist.n = 0 THEN 0 ELSE (hist.v0 + 1) % NUM_COL} :
         /\ \E r \in LiveRows(c) : TickCore(Pow2(c) * 256 + r, TtagWrap)
         /\ hist' = [v0 |-> c, on |-> TRUE, n |-> 1]

NextLive == Setup \/ LiveHold \/ LiveBlank \/ LiveAdvance

SpecLive == InitLive /\ [][NextLive]_vars /\ WF_vars(NextLive)

\* a tick that samples the (column mask, row mask) pair of the tick before,
\* with a one-hot column mask other than the last accepted one, accepts the
\* frame and runs the integrator on it
HeldTwiceAccepted ==
    (/\ TickStep
     /\ OneHot(isr'.inColMask)
     /\ isr'.inColMask = sLastColMask
     /\ isr'.inRowMask = sLastRowMask
     /\ isr'.inColMask # sLastUpdColMask)
    => /\ isr'.validInput
       /\ sLastUpdColMask' = isr'.inColMask
       /\ sMatrixState' = updateCol(sMatrixState, sGlowSteps, isr'.inCol, isr'.inRowMask)

\* C3: no permanent lockout: the second of two ticks that sample the same
\* pair with a one-hot column mask other than the last accepted one accepts
\* the frame and runs the integrator; and while the input cycles through the
\* columns, holding each for two ticks or more, every column is accepted
\* again and again
C3_NoPermanentLockout ==
    /\ [][HeldTwiceAccepted]_vars
    /\ \A k \in Cols : []<>(isr.validInput /\ isr.inCol = k /\ hist.v0 = k /\ hist.n = 2)

\* C3 witness: in the second scan, column 7 has been shown for two ticks and
\* was accepted on the second
C3_Witness ==
    /\ isr.validInput
    /\ isr.inCol = 7
    /\ hist.v0 = 7
    /\ hist.n = 2
    /\ sMatrixState[7][0] = 2 * GlowStep(DEFAULT_GLOWDUR \div GLOWDUR_CFG_SCALE)

-----------------------------------------------------------------------------
(* SpecCfg: the timing mode strap and the configuration commands *)

\* the step in which loop() handles a change of the timing mode strap
ModeChangeStep == pc = "run" /\ sLastPINB' # sLastPINB

\* C11 (as claimed): when loop() has handled a change of the timing mode
\* strap, the timer is re-armed for the new mode and every lamp's maximum
\* subcycle is its brightness code shifted for the new mode (>> 0 with
\* N = 8, >> 1 with N = 4)
C11_ModeChangeRecomputes ==
    [][ModeChangeStep =>
        /\ OCR1A' = TimerCompare(PINB')
        /\ OCIE1A'
        /\ \A c \in Cols : \A r \in Rows :
              sMaxSubcycle'[c][r] =
                  (IF StrapA(PINB') THEN sCfg'.lampBrightness[c][r]
                                    ELSE sCfg'.lampBrightness[c][r] \div 2)]_vars

\* C12 (as claimed): after setup, the configuration record and the derived
\* tables change only in steps that start with the timer compare interrupt
\* disabled
C12_WrittenOnlyWhileStopped ==
    [][(pc = "run" /\ (sCfg' # sCfg \/ sGlowSteps' # sGlowSteps
                                     \/ sMaxSubcycle' # sMaxSubcycle))
        => ~OCIE1A]_vars

\* the step in which receiveCfg() has read the whole record and returns
RxDoneStep == pc = "run" /\ loopPc = "rx" /\ loopPc' = "idle"

\* the record receiveCfg() has read
RxImage == SubSeq(rx.stream, 1, CfgSize)

\* C13: a received record whose checksum does not match is rejected: the
\* configuration record, the glow steps, the maximum subcycles and the
\* EEPROM are left as they were and NACK is sent
C13_BadCrcRejected ==
    [][(RxDoneStep /\ calculateCRC32(RxImage, CfgSize - 4) # CfgOfBytes(RxImage).crc)
        => /\ sCfg' = sCfg
           /\ sGlowSteps' = sGlowSteps
           /\ sMaxSubcycle' = sMaxSubcycle
           /\ eeprom' = eeprom
           /\ serialTx' = Msg("AGCNACK")]_vars

\* C13 witness: the device runs on the record CfgA of its EEPROM, has taken
\* ticks, and has answered a configuration write with NACK
C13_Witness ==
    /\ pc = "run"
    /\ loopPc = "idle"
    /\ serialTx = Msg("AGCNACK")
    /\ sCfg = CfgA
    /\ eeprom = ImgA
    /\ sGlowSteps = applyCfgGlowSteps(CfgA)
    /\ sTtag > 0
    /\ OCIE1A

\* SpecCfgLive: SpecCfg with the background loop and the timer running on:
\* a pass of the read loop or the end of receiveCfg() that can be taken is
\* taken
SpecCfgLive == InitCfg /\ [][NextCfg]_vars /\ WF_vars(RxRead) /\ WF_vars(RxDone)

\* C14 (as claimed): every configuration write comes to its end: the
\* answer (ACK or NACK) is sent and the timer interrupt and the watchdog
\* are enabled again
C14_WriteCompletes ==
    (loopPc = "rx") ~> (/\ loopPc = "idle"
                        /\ (serialTx = Msg("AGCACK") \/ serialTx = Msg("AGCNACK"))
                        /\ OCIE1A
                        /\ wdtOn)

\* the tables setup() derives in the timing mode of pinb when the EEPROM
\* holds img
BootTables(img, pinb) ==
    LET valid == /\ CfgOfBytes(img).version = AFTERGLOW_CFG_VERSION
                 /\ calculateCRC32(img, CfgSize - 4) = CfgOfBytes(img).crc
        cfg == IF valid THEN CfgOfBytes(img) ELSE DefaultCfgRec
    IN  <<applyCfgGlowSteps(cfg), applyCfgMaxSubcycle(cfg, pinb)>>

\* C15 (as claimed): when a record has been accepted by the configuration
\* write (ACK), the bytes a configuration poll sends are the bytes received
\* and the derived tables are those setup() derives from the same record in
\* the EEPROM in the same timing mode
C15_RoundTrip ==
    [][(RxDoneStep /\ serialTx' = Msg("AGCACK"))
        => /\ CfgBytes(sCfg') = RxImage
           /\ <<sGlowSteps', sMaxSubcycle'>> = BootTables(RxImage, PINB')]_vars

\* the step in which setup() runs
SetupStep == pc = "boot" /\ pc' = "run"

\* the record in the image has the expected version and a matching checksum
ImageValid(img) ==
    /\ CfgOfBytes(img).version = AFTERGLOW_CFG_VERSION
    /\ calculateCRC32(img, CfgSize - 4) = CfgOfBytes(img).crc

\* C16: when the record in the EEPROM has another version or a checksum that
\* does not match, setup() leaves the default record active (glow duration
\* code DEFAULT_GLOWDUR/GLOWDUR_CFG_SCALE and brightness DEFAULT_BRIGHTNESS
\* for all 64 lamps, the expected version, a matching checksum), the tables
\* derived from it, and the EEPROM holding it as a record a restart accepts
C16_InvalidRecordGivesDefault ==
    [][(SetupStep /\ ~ImageValid(eeprom))
        => /\ sCfg'.version = AFTERGLOW_CFG_VERSION
           /\ \A c \in Cols : \A r \in Rows :
                 /\ sCfg'.lampGlowDur[c][r] = DEFAULT_GLOWDUR \div GLOWDUR_CFG_SCALE
                 /\ sCfg'.lampBrightness[c][r] = DEFAULT_BRIGHTNESS
           /\ sCfg'.crc = calculateCRC32(CfgBytes(sCfg'), CfgSize - 4)
           /\ sGlowSteps' = applyCfgGlowSteps(sCfg')
           /\ sMaxSubcycle' = applyCfgMaxSubcycle(sCfg', PINB')
           /\ eeprom' = CfgBytes(sCfg')
           /\ ImageValid(eeprom')]_vars

\* C16 witness: setup() has just run in timing mode B and left the default
\* record active and stored (of the EEPROM contents of SpecCfg only the
\* invalid ones lead here)
C16_Witness ==
    /\ pc = "run"
    /\ serialTx = Msg("banner")
    /\ ~StrapA(PINB)
    /\ sCfg.lampGlowDur[0][0] = DEFAULT_GLOWDUR \div GLOWDUR_CFG_SCALE
    /\ sCfg.lampBrightness[0][0] = DEFAULT_BRIGHTNESS
    /\ sMaxSubcycle[0][0] = 3
    /\ eeprom = CfgBytes(sCfg)

\* C17 (as claimed): after setup the active configuration record has the
\* expected version and a checksum that matches its contents
C17_ActiveRecordValidated ==
    (pc = "run") =>
        /\ sCfg.version = AFTERGLOW_CFG_VERSION
        /\ sCfg.crc = CrcOfImage(CfgBytes(sCfg))

\* the scheduler is stopped: stop() has returned and start() is not yet called
Stopped == pc = "run" /\ loopPc = "rx"

\* C18: while the scheduler is stopped the timer compare interrupt and the
\* watchdog are disabled and OE is high, no tick runs and no frame is
\* emitted; when start() has returned both are enabled
C18_SchedulerStates ==
    /\ [](Stopped => (~OCIE1A /\ ~wdtOn /\ OE = 1))
    /\ [][Stopped => (sTtag' = sTtag /\ isr' = isr /\ sMatrixState' = sMatrixState
                        /\ sLastColMask' = sLastColMask /\ OE' = 1)]_vars
    /\ [][(Stopped /\ loopPc' = "idle") => (OCIE1A' /\ wdtOn')]_vars

\* C18 witness: ticks had driven the outputs (the last one emitted a frame)
\* when a configuration write stopped the scheduler; part of the record is
\* read
C18_Witness ==
    /\ Stopped
    /\ sTtag = MaxTtagCfg
    /\ isr.frames # << >>
    /\ rx.size = 2 * AG_CMD_WRITE_BUF
    /\ OE = 1
    /\ ~OCIE1A

\* C19 (as claimed): the watchdog is an unconditional timeout: in every
\* state after setup it is armed, so that a tick that fails to come restarts
\* the device
C19_WatchdogAlwaysArmed == (pc = "run") => wdtOn

-----------------------------------------------------------------------------
(* SpecMx: updates at the rails *)

\* C20: an update of column 0 leaves every lamp of the column as it is when
\* its counter is 65535 and its row bit is on, or 0 and its row bit is off,
\* whatever its glow step
C20_IdempotentAtRail ==
    [][\A r \in Rows :
          LET bitOn == (r = 0) /\ hist'.on
          IN  /\ (bitOn /\ sMatrixState[0][r] = 65535) => sMatrixState'[0][r] = 65535
              /\ (~bitOn /\ sMatrixState[0][r] = 0) => sMatrixState'[0][r] = 0]_vars

\* C20 witness: with step 39320 the counter went from 0 to 65535 in two 'on'
\* updates and MxExtra more 'on' updates were applied at the rail
C20_Witness ==
    /\ sGlowSteps[0][0] = 39320
    /\ hist.on
    /\ hist.v0 = 0
    /\ hist.n = 2 + MxExtra
    /\ sMatrixState[0][0] = 65535

-----------------------------------------------------------------------------
(* SpecCfg: the timing mode watch and the lamp matrix *)

\* the step that ends the handling of a timing mode change
ModeRecordStep == pc = "run" /\ loopPc = "mode2" /\ loopPc' = "idle"

\* C26 (as claimed): no tick runs while loop() handles a timing mode change,
\* and when the handling ends the time tag is 0 and the timer period is the
\* one of the strap value stored as the last one seen, also when the strap
\* moves during the handling
C26_ModeChangeAtomic ==
    /\ [][IntsOff => (isr' = isr /\ sMatrixState' = sMatrixState
                        /\ sLastColMask' = sLastColMask)]_vars
    /\ [][ModeRecordStep => (sTtag' = 0 /\ OCIE1A'
                                /\ OCR1A' = TimerCompare(sLastPINB'))]_vars

\* C30: after setup, a step that is not a timer tick (a serial command, a
\* pass of receiveCfg(), its end with or without a new record, the handling
\* of a timing mode change) leaves the 64 brightness counters as they are
C30_LoopLeavesMatrix ==
    [][(pc = "run" /\ sTtag' # (sTtag + 1) % TtagWrap)
        => sMatrixState' = sMatrixState]_vars

\* C30 witness: a lamp counter is up after two ticks, and a configuration
\* write has replaced the record by CfgB and was acknowledged
C30_Witness ==
    /\ pc = "run"
    /\ loopPc = "idle"
    /\ serialTx = Msg("AGCACK")
    /\ sCfg = CfgB
    /\ sTtag = MaxTtagCfg
    /\ sMatrixState[2][0] > 0

-----------------------------------------------------------------------------
(* The frames of a tick (C22 and C23 under SpecPwm, C24 under Spec) and the *)
(* effect of an accepted update (C25 under Spec)                            *)

\* C22: in afterglow mode a tick writes two frames, the all-off frame first
\* and then a frame with exactly one column bit
C22_BlankThenOneColumn ==
    [][(TickStep /\ ~PassThrough(PINB))
        => /\ Len(isr'.frames) = 2
           /\ isr'.frames[1] = <<0, 0>>
           /\ OneHot(isr'.frames[2][1])
           /\ isr'.frames[2][2] \in 0 .. 255]_vars

\* C22 witness: an afterglow tick of the second round has written the
\* all-off frame and then column 1 with row 0 lit
C22_Witness ==
    /\ ~PassThrough(PINB)
    /\ sTtag = NUM_COL + 1
    /\ isr.frames = << <<0, 0>>, <<2, 1>> >>

\* C24: in pass-through mode a tick writes a frame exactly when the pair of
\* masks the tick before has stored differs from the pair written last in
\* pass-through mode; the frame is that pair and the only one of the tick
C24_PassThroughOnChange ==
    [][(TickStep /\ PassThrough(PINB))
        => IF <<sLastColMask, sLastRowMask>>
                 # <<sLastPassThroughColMask, sLastPassThroughRowMask>>
           THEN /\ isr'.frames = << <<sLastColMask, sLastRowMask>> >>
                /\ sLastPassThroughColMask' = sLastColMask
                /\ sLastPassThroughRowMask' = sLastRowMask
           ELSE /\ isr'.frames = << >>
                /\ sLastPassThroughColMask' = sLastPassThroughColMask
                /\ sLastPassThroughRowMask' = sLastPassThroughRowMask]_vars

\* C24 witness: a pass-through tick has written nothing, as the pair of the
\* tick before (column mask 4, row 0 on) was the one written last
C24_Witness ==
    /\ PassThrough(PINB)
    /\ isr.frames = << >>
    /\ sTtag >= 3
    /\ sLastPassThroughColMask = 4
    /\ sLastPassThroughRowMask = 1

\* C25: an accepted update of column c moves the 8 counters of column c (up
\* by the lamp's glow step for a set row bit, down otherwise, within
\* 0..65535) and leaves the other columns, the glow steps and the maximum
\* subcycles alone; updateCol with a column index of 8 or more changes nothing
C25_UpdateTouchesOneColumn ==
    /\ [][(TickStep /\ isr'.validInput)
            => /\ \A c \in Cols \ {isr'.inCol} : sMatrixState'[c] = sMatrixState[c]
               /\ \A r \in Rows :
                     sMatrixState'[isr'.inCol][r] =
                        IF BitOf(isr'.inRowMask, r) = 1
                        THEN Min(sMatrixState[isr'.inCol][r] + sGlowSteps[isr'.inCol][r], 65535)
                        ELSE 0 - Min(sGlowSteps[isr'.inCol][r] - sMatrixState[isr'.inCol][r], 0)
               /\ sGlowSteps' = sGlowSteps
               /\ sMaxSubcycle' = sMaxSubcycle]_vars
    /\ [](\A col \in {NUM_COL, NUM_COL + 1, 255}, rowMask \in {0, 1, 255} :
            updateCol(sMatrixState, sGlowSteps, col, rowMask) = sMatrixState)

\* C25 witness: column 1 was lit, and then an accepted update lit lamp
\* [2][0] and left column 1 as it was
C25_Witness ==
    /\ isr.validInput
    /\ isr.inCol = 2
    /\ isr.inRowMask = 1
    /\ sMatrixState[2][0] = sGlowSteps[2][0]
    /\ sMatrixState[1][0] = sGlowSteps[1][0]

\* C23: in afterglow mode the time tag goes up by one per tick and the
\* column driven is the time tag modulo 8, so that 8 ticks in a row drive
\* each column once; the sub-cycle index of a visit is the number of the
\* visit modulo N, so that N visits in a row take each index once: a lamp
\* with a counter V > 0 is lit in the visit exactly when
\* min(V / (65536/N), M) is at least that index
C23_ColumnAndSubCycle ==
    [][(TickStep /\ ~PassThrough(PINB))
        => LET n == IF BitOf(PINB, 2) = 1 THEN 8 ELSE 4
               visit == sTtag' \div 8
               v == sMatrixState[PwmCol][0]
               sub == Min(v \div (65536 \div n), sMaxSubcycle[PwmCol][0])
           IN  /\ sTtag' = (sTtag + 1) % TtagWrap
               /\ isr'.frames[2][1] = Pow2(sTtag' % 8)
               /\ (sTtag' % 8 = PwmCol) =>
                     ((BitOf(isr'.frames[2][2], 0) = 1) <=> (v > 0 /\ sub >= visit % n))]_vars

\* C23 witness: in timing mode B the sixth visit of column 1 (sub-cycle
\* index 1) has lit the lamp whose counter 16384 makes sub-cycle 1, after the
\* fourth visit (index 3) had left it dark
C23_Witness ==
    /\ ~StrapA(PINB)
    /\ sTtag = 5 * NUM_COL + PwmCol
    /\ sMatrixState[PwmCol][0] = 16384
    /\ sMaxSubcycle[PwmCol][0] = 3
    /\ isr.frames = << <<0, 0>>, <<Pow2(PwmCol), 1>> >>
    /\ hist.n = 2

-----------------------------------------------------------------------------
(* SpecMx: fades from rail to rail *)

\* the glow step of the end-to-end fade
FadeStep == 65535 \div 100

C27_InstantStep ==
    /\ [](GlowStep(0) = 65535)
    /\ [][sGlowSteps[0][0] = GlowStep(0)
           => sMatrixState'[0][0] = (IF hist'.on THEN 65535 ELSE 0)]_vars

\* C27 witness: with the step 65535 one 'off' update took the counter from a
\* value between the rails down to 0
C27_Witness ==
    /\ sGlowSteps[0][0] = 65535
    /\ ~hist.on
    /\ hist.v0 = -1
    /\ hist.n = -1
    /\ sMatrixState[0][0] = 0

-----------------------------------------------------------------------------
(* SpecTest: the diagnostic test mode.  The device runs with the test       *)
(* jumper closed, in timing mode A or B, with the default configuration;    *)
(* the input register shows one of TestSamples.  hist follows the simulated *)
(* column periods: period is the number of the period of the last tick, n   *)
(* the number of ticks of that period that called updateCol, lamps the      *)
(* lamps the generator has switched on while test pattern 6 was running.    *)

\* ticks followed: TEST_MODE_NUMMODES patterns of TEST_MODE_DUR seconds in
\* timing mode A
MaxTestTtag == 224000

\* what the input register shows: no strobe, or column 1 with row 0 lit
TestSamples == {255, 2 * 256 + 254}

\* ticks per test pattern: TEST_MODE_DUR * 1000000UL / TTAG_INT_x
TestModeTicks(pinb) == 8000000 \div (IF StrapA(pinb) THEN TTAG_INT_A ELSE TTAG_INT_B)

\* the test pattern at the time tag ttag: m % TEST_MODE_NUMMODES
TestPattern(ttag, pinb) == ((ttag \div TestModeTicks(pinb)) % 256) % 7

\* the simulated column at the time tag ttag
TestCol(ttag, pinb) == (ttag \div OrigCycles(StrapA(pinb))) % NUM_COL

\* the number of the simulated column period of the time tag ttag
TestPeriod(ttag, pinb) == ttag \div OrigCycles(StrapA(pinb))

\* the lamps a sample switches on
LampsOn(colMask, rowMask) ==
    {<<c, r>> \in Cols \X Rows : BitOf(colMask, c) = 1 /\ BitOf(rowMask, r) = 1}

InitTest ==
    /\ \E pinb \in {14, 10} :
         Running(pinb, DefaultCfgRec, Matrix(0), applyCfgGlowSteps(DefaultCfgRec))
    /\ hist = [period |-> 0, n |-> 0, lamps |-> {}]

\* one tick in test mode
TestTick ==
    /\ \E sampled \in TestSamples : TickCore(sampled, MaxTestTtag)
    /\ hist' = [period |-> TestPeriod(sTtag', PINB),
                n |-> (IF TestPeriod(sTtag', PINB) = hist.period THEN hist.n ELSE 0)
                      + (IF isr'.validInput THEN 1 ELSE 0),
                lamps |-> IF TestPattern(sTtag', PINB) = 6
                          THEN hist.lamps \cup LampsOn(isr'.inColMask, isr'.inRowMask)
                          ELSE hist.lamps]

NextTest == TestTick

SpecTest == InitTest /\ [][NextTest]_vars

\* C28: in test mode the sample of a tick is the generated one whatever the
\* input register shows; its column mask is the one bit of the simulated
\* column (time tag / N) mod 8, which stays for the N time tags of a column
\* period; updateCol is called in exactly one tick of every column period,
\* for the simulated column and with the generated row mask, and the other
\* ticks leave the counters alone
C28_TestModePipeline ==
    /\ [][LET n == OrigCycles(StrapA(PINB))
              gen == testModeInput(sTtag', PINB)
          IN  /\ isr'.inColMask * 256 + NotByte(isr'.inRowMask) = gen
              /\ OneHot(isr'.inColMask)
              /\ isr'.inColMask = Pow2((sTtag' \div n) % NUM_COL)
              /\ isr'.validInput =>
                    sMatrixState' = updateCol(sMatrixState, sGlowSteps,
                                              TestCol(sTtag', PINB), NotByte(gen % 256))
              /\ ~isr'.validInput => sMatrixState' = sMatrixState]_vars
    /\ [](/\ hist.n <= 1
          /\ (sTtag % OrigCycles(StrapA(PINB)) = OrigCycles(StrapA(PINB)) - 1) => hist.n = 1)

\* C28 witness: in timing mode A, in the row sweep (pattern 1), the second
\* tick of a period of column 1 has called updateCol with row 0 on, and the
\* ticks of the period after it have not
C28_Witness ==
    /\ TestMode(PINB) /\ StrapA(PINB)
    /\ TestPattern(sTtag, PINB) = 1
    /\ sTtag % ORIG_CYCLES_A = ORIG_CYCLES_A - 1
    /\ isr.inColMask = 2
    /\ isr.inRowMask = 1
    /\ ~isr.validInput
    /\ hist.n = 1
    /\ sMatrixState[1][0] > 0

\* C29 (as claimed): while test pattern 6 runs the generator switches on at
\* most one lamp at a time, and when the pattern ends every one of the 64
\* lamps has been switched on
C29_SweepCoversAllLamps ==
    (TestPattern(sTtag, PINB) = 6 /\ sTtag > 0) =>
        /\ Cardinality(LampsOn(isr.inColMask, isr.inRowMask)) <= 1
        /\ (TestPattern(sTtag + 1, PINB) # 6) => hist.lamps = Cols \X Rows

-----------------------------------------------------------------------------
(* Spec: the consistency counter of the validator *)

\* C39: the consistency counter is 0 or 1 in every state; a tick whose
\* column mask differs from the last accepted one sets it to 0 when the
\* sample differs from the previous raw sample and raises it by one when it
\* does not, and a tick whose column mask is the last accepted one leaves it
\* as it is
C39_CounterZeroOrOne ==
    /\ [](sConsistentSamples \in {0, SINGLE_UPDATE_CONS - 1})
    /\ [][TickStep =>
            LET unhandled == isr'.inColMask # sLastUpdColMask
                changed == (isr'.inColMask # sLastColMask) \/ (isr'.inRowMask # sLastRowMask)
            IN  /\ (unhandled /\ changed) => sConsistentSamples' = 0
                /\ (unhandled /\ ~changed) => sConsistentSamples' = sConsistentSamples + 1
                /\ ~unhandled => sConsistentSamples' = sConsistentSamples]_vars

\* C39 witness: the counter stands at 1 after MaxTtag ticks, the last of
\* which showed the column accepted before and left the counter alone
C39_Witness ==
    /\ sTtag = MaxTtag
    /\ sConsistentSamples = 1
    /\ ~isr.validInput
    /\ isr.inColMask = 2
    /\ sLastUpdColMask = 2

-----------------------------------------------------------------------------
(* SpecPwm: dark and lit lamps *)

\* C34: in afterglow mode a lamp of the driven column whose counter is 0 is
\* emitted OFF, a lamp whose counter is not 0 is emitted ON in sub-cycle 0
\* whatever its max-subcycle, and with the brightness code 0 a lamp whose
\* counter is not 0 is ON in exactly one of the N sub-cycles of a window
C34_ZeroDarkNonzeroLit ==
    /\ [][(TickStep /\ ~PassThrough(PINB))
            => LET outCol == sTtag' % NUM_COL
               IN  \A r \in Rows :
                      /\ sMatrixState[outCol][r] = 0 => BitOf(isr'.frames[2][2], r) = 0
                      /\ (sMatrixState[outCol][r] > 0 /\ ColCycle(sTtag', PINB) = 0)
                            => BitOf(isr'.frames[2][2], r) = 1]_vars
    /\ []((WindowDone /\ hist.v0 > 0 /\ sCfg.lampBrightness[PwmCol][0] = 0) => hist.n = 1)

\* C34 witness: in timing mode B a lamp at full counter with the brightness
\* code 0 has been ON in one sub-cycle of a finished window
C34_Witness ==
    /\ ~StrapA(PINB)
    /\ WindowDone
    /\ sCfg.lampBrightness[PwmCol][0] = 0
    /\ sMaxSubcycle[PwmCol][0] = 0
    /\ sMatrixState[PwmCol][0] = 65535
    /\ hist.n = 1

-----------------------------------------------------------------------------
(* SpecCfg: the timing mode of a tick, the active and the stored record *)

\* C35 (as claimed): in every tick the timing mode the driver reads from the
\* strap is the one the armed period was set for and the one the
\* max-subcycle table was computed for
C35_TickModeConsistent ==
    [][TickStep => /\ OCR1A = TimerCompare(PINB)
                   /\ sMaxSubcycle = applyCfgMaxSubcycle(sCfg, PINB)]_vars

\* C37 (as claimed): whenever the loop is idle after setup the active record
\* has the bytes of the stored one
C37_ActiveEqualsStored ==
    (pc = "run" /\ loopPc = "idle") => CfgBytes(sCfg) = eeprom

-----------------------------------------------------------------------------
(* SpecGlow: the glow steps of applyCfg().  The EEPROM holds a valid record *)
(* with a glow duration code of GlowCodes for lamp [0][0] and the next      *)
(* longer one for lamp [0][1]; setup() loads and applies it.                *)

\* the glow duration codes that are not 0
GlowCodes == 1 .. 255

GlowCfg(d) ==
    WithCrc([DefaultCfgRec EXCEPT
                !.lampGlowDur = [@ EXCEPT ![0] = [@ EXCEPT ![0] = d,
                                                          ![1] = Min(d + 1, 255)]]])

InitGlow == InitWith({CfgBytes(GlowCfg(d)) : d \in GlowCodes}, {15, 11})

NextGlow == Setup

SpecGlow == InitGlow /\ [][NextGlow]_vars

\* C33 (as claimed): for every glow duration code d in 1..255 the glow step
\* applyCfg stores is floor(65535 / (d*10*1000/2000)) * 8 as an unbounded
\* integer, and the step of a longer duration is never larger than the step
\* of a shorter one
C33_GlowStepExact ==
    (pc = "run") =>
        LET d == sCfg.lampGlowDur[0][0]
            e == sCfg.lampGlowDur[0][1]
        IN  /\ sGlowSteps[0][0] = (65535 \div ((d * 10 * 1000) \div 2000)) * 8
            /\ sGlowSteps[0][1] = (65535 \div ((e * 10 * 1000) \div 2000)) * 8
            /\ sGlowSteps[0][1] <= sGlowSteps[0][0]

-----------------------------------------------------------------------------
(* SpecRestart: a configuration write followed by a restart.  The device    *)
(* runs with CfgA; the host writes records, and after an acknowledged write *)
(* the device is restarted (power cycle or reset) and runs setup() again    *)
(* with no further command.  hist keeps the record that was active when the *)
(* device restarted.                                                        *)

InitRestart ==
    /\ \E pinb \in {15, 11} : Running(pinb, CfgA, Matrix(0), applyCfgGlowSteps(CfgA))
    /\ hist = [acked |-> ZeroCfg, restarted |-> FALSE]

\* a restart after an acknowledged write: the statics are initialised again,
\* the registers are at their reset values, the EEPROM and the jumpers stay
Restart ==
    /\ pc = "run"
    /\ loopPc = "idle"
    /\ serialTx = Msg("AGCACK")
    /\ ~hist.restarted
    /\ pc' = "boot"
    /\ sMatrixState' = Matrix(0)
    /\ sTtag' = 0
    /\ sLastColMask' = 0
    /\ sLastRowMask' = 0
    /\ sConsistentSamples' = 0
    /\ sLastUpdColMask' = 0
    /\ sLastPassThroughColMask' = 0
    /\ sLastPassThroughRowMask' = 0
    /\ sCfg' = ZeroCfg
    /\ sGlowSteps' = Matrix(0)
    /\ sMaxSubcycle' = Matrix(0)
    /\ sLastPINB' = 0
    /\ OCR1A' = 0
    /\ OCIE1A' = FALSE
    /\ wdtOn' = FALSE
    /\ OE' = 1
    /\ isr' = NoIsr
    /\ rx' = NoRx
    /\ serialTx' = Msg("none")
    /\ hist' = [acked |-> sCfg, restarted |-> TRUE]
    /\ UNCHANGED <<loopPc, PINB, eeprom>>

NextRestart ==
    \/ Setup
    \/ ~hist.restarted /\ Tick(4 * 256 + 254, MaxTtagCfg)
    \/ ~hist.restarted /\ \E stream \in {ImgB, ImgBadCrc, ImgBadVersion},
                              total \in {CfgSize, ShortLen} : CmdCfgSave(stream, total)
    \/ ~hist.restarted /\ RxRead
    \/ ~hist.restarted /\ RxDone
    \/ Restart

SpecRestart == InitRestart /\ [][NextRestart]_vars

\* C36 (as claimed): after a restart that follows an acknowledged write, with
\* no further command, the active record is the acknowledged one
C36_AckedSurvivesRestart ==
    (hist.restarted /\ pc = "run") => sCfg = hist.acked

-----------------------------------------------------------------------------
(* SpecPass: the output register in pass-through mode.  The device runs in  *)
(* pass-through or afterglow mode with the default configuration, the input *)
(* register shows one of PassSamples and the pass-through jumper may be     *)
(* moved.  hist.latch is the frame in the storage registers of the 74HC595  *)
(* pair: the frame of the last dataOutput() call; its value at power-on is  *)
(* not defined by the program and is one of PowerOnFrames.                  *)

\* ticks followed
MaxTtagPass == 5

\* what the input register shows: no strobe, column 1 with row 0 lit,
\* column 2 with no row lit
PassSamples == {255, 2 * 256 + 254, 4 * 256 + 255}

\* contents of the output register before the first dataOutput() call
PowerOnFrames == {<<0, 0>>, <<255, 255>>}

InitPass ==
    /\ \E pinb \in {7, 15} :
         Running(pinb, DefaultCfgRec, Matrix(0), applyCfgGlowSteps(DefaultCfgRec))
    /\ \E f \in PowerOnFrames : hist = [latch |-> f]

\* one tick; the register keeps the last frame written, if any
PassTick ==
    /\ \E sampled \in PassSamples : TickCore(sampled, MaxTtagPass)
    /\ hist' = [latch |-> IF isr'.frames = << >>
                          THEN hist.latch
                          ELSE isr'.frames[Len(isr'.frames)]]

NextPass == PassTick \/ JumperChange(3)

SpecPass == InitPass /\ [][NextPass]_vars

\* C38 (as claimed): at the end of every tick in pass-through mode that has
\* a tick before it, the output register holds the raw (column mask, row
\* mask) pair the previous tick captured
C38_LatchShowsPreviousSample ==
    [][(TickStep /\ PassThrough(PINB) /\ sTtag >= 1)
        => hist'.latch = <<sLastColMask, sLastRowMask>>]_vars

-----------------------------------------------------------------------------
(* SpecDur: the run time statistics of the tick.  The handler reads the 16  *)
(* bit counter TCNT1 when it starts and when it ends; hist holds            *)
(* sLastIntTime and sMaxIntTime.                                            *)

\* ticks followed
MaxTtagDur == 3

\* TCNT1 as read at the start and at the end of the handler
StartCnts == {0, 10}

EndCnts == {5, 10, 1610, 7999, 15999, 16000, 16009, 16010, 65535}

\* a measurement that records every new maximum
measureIntTimeNoGuard(maxIntTime, startCnt, endCnt) ==
    LET lastIntTime == (endCnt + 65536 - startCnt) % 65536
    IN  [sLastIntTime |-> lastIntTime,
         sMaxIntTime |-> IF lastIntTime > maxIntTime THEN lastIntTime ELSE maxIntTime]

\* the end of the handler: sLastIntTime = TCNT1 - startCnt in 16 bits, and
\* sMaxIntTime follows it when it is larger and below 1000 * 16
measureIntTime(maxIntTime, startCnt, endCnt) ==
    LET lastIntTime == (endCnt + 65536 - startCnt) % 65536
    IN  [sLastIntTime |-> lastIntTime,
         sMaxIntTime |-> IF (lastIntTime > maxIntTime) /\ (lastIntTime < 1000 * 16)
                         THEN lastIntTime
                         ELSE maxIntTime]

InitDur ==
    /\ \E pinb \in {15, 11} :
         Running(pinb, DefaultCfgRec, Matrix(0), applyCfgGlowSteps(DefaultCfgRec))
    /\ hist = [sLastIntTime |-> 0, sMaxIntTime |-> 0]

\* one tick with its two readings of TCNT1
DurTick ==
    /\ TickCore(255, MaxTtagDur)
    /\ \E startCnt \in StartCnts, endCnt \in EndCnts :
          hist' = measureIntTime(hist.sMaxIntTime, startCnt, endCnt)

NextDur == DurTick

SpecDur == InitDur /\ [][NextDur]_vars

\* C32: the recorded maximum tick duration never decreases and is always
\* below 16000 counts; a tick that measured 16000 counts or more leaves it
\* as it is, and a tick that measured more than the maximum and less than
\* 16000 counts sets it to the measured value
C32_MaxDurationGuarded ==
    /\ [](hist.sMaxIntTime < 16000)
    /\ [][/\ hist'.sMaxIntTime >= hist.sMaxIntTime
          /\ hist'.sLastIntTime >= 16000 => hist'.sMaxIntTime = hist.sMaxIntTime
          /\ (hist'.sLastIntTime > hist.sMaxIntTime /\ hist'.sLastIntTime < 16000)
                => hist'.sMaxIntTime = hist'.sLastIntTime]_vars

\* C32 witness: after a maximum of 1600 counts was recorded, a tick in which
\* the counter restarted (read 10 at the start and 5 at the end) measured
\* 65531 counts, and the maximum is still 1600
C32_Witness ==
    /\ sTtag >= 2
    /\ hist.sLastIntTime = 65531
    /\ hist.sMaxIntTime = 1600

-----------------------------------------------------------------------------
(* SpecShift: dataOutput() statement by statement.  hist holds the position *)
(* in dataOutput() (dpc), its arguments and locals, the three output pins   *)
(* of port D (OUT_LOAD = RCLK, OUT_CLK = SRCLK, OUT_DATA = SER), and the    *)
(* two cascaded 74HC595: the 16 bit shift register sr, which takes SER in   *)
(* on a rising edge of SRCLK, and the storage register latch, which takes   *)
(* sr on a rising edge of RCLK.  clocks and latches count the rising edges  *)
(* of the running call.  OE is the model's output-enable pin (1 = high,     *)
(* outputs off).                                                            *)

\* the (column, row) arguments of the calls
ShiftFrames == {<<0, 0>>, <<1, 255>>, <<128, 1>>, <<4, 165>>}

\* contents of the two registers before the first call
PowerOnWords == {0, 65535}

\* uint16_t data with the column byte first
dataWordColFirst(colData, rowData) == colData * 256 + rowData

\* uint16_t data = ((rowData << 8) | colData)
dataWord(colData, rowData) == rowData * 256 + colData

\* data & bitMask, for a bitMask of one bit
MaskedBit(data, bitMask) == (data \div bitMask) % 2

InitShift ==
    /\ \E pinb \in {15, 11} :
         Running(pinb, DefaultCfgRec, Matrix(0), applyCfgGlowSteps(DefaultCfgRec))
    /\ \E s \in PowerOnWords, l \in PowerOnWords :
         hist = [dpc |-> "idle", colData |-> 0, rowData |-> 0, data |-> 0, bitMask |-> 0,
                 OUT_LOAD |-> 0, OUT_CLK |-> 0, OUT_DATA |-> 0,
                 sr |-> s, latch |-> l, clocks |-> 0, latches |-> 0]

ShiftUnchanged ==
    UNCHANGED <<pc, loopPc, PINB, sMatrixState, sTtag, sLastColMask, sLastRowMask,
                sConsistentSamples, sLastUpdColMask, sLastPassThroughColMask,
                sLastPassThroughRowMask, sCfg, sGlowSteps, sMaxSubcycle, sLastPINB,
                eeprom, OCR1A, OCIE1A, wdtOn, isr, rx, serialTx>>

\* the call: PORTD &= B00111111 pulls RCLK and CLK low, data is prepared and
\* the loop starts with bitMask = 0x8000
ShiftCall(colData, rowData) ==
    /\ hist.dpc = "idle"
    /\ hist' = [hist EXCEPT !.dpc = "clkLow", !.colData = colData, !.rowData = rowData,
                            !.data = dataWord(colData, rowData), !.bitMask = 32768,
                            !.OUT_LOAD = 0, !.OUT_CLK = 0, !.clocks = 0, !.latches = 0]
    /\ UNCHANGED OE
    /\ ShiftUnchanged

\* PORTD &= B10111111: CLK low, in the loop while bitMask > 0 and once more
\* after the loop
ShiftClkLow ==
    /\ hist.dpc = "clkLow"
    /\ hist' = [hist EXCEPT !.dpc = IF hist.bitMask > 0 THEN "data" ELSE "latch",
                            !.OUT_CLK = 0]
    /\ UNCHANGED OE
    /\ ShiftUnchanged

\* set or clear the data bit
ShiftData ==
    /\ hist.dpc = "data"
    /\ hist' = [hist EXCEPT !.dpc = "clkHigh",
                            !.OUT_DATA = MaskedBit(hist.data, hist.bitMask)]
    /\ UNCHANGED OE
    /\ ShiftUnchanged

\* PORTD |= B01000000: CLK high, the shift register takes the data bit;
\* bitMask >>= 1
ShiftClkHigh ==
    /\ hist.dpc = "clkHigh"
    /\ hist' = [hist EXCEPT !.dpc = "clkLow",
                            !.OUT_CLK = 1,
                            !.sr = IF hist.OUT_CLK = 0
                                   THEN (hist.sr * 2 + hist.OUT_DATA) % 65536
                                   ELSE hist.sr,
                            !.clocks = hist.clocks + (1 - hist.OUT_CLK),
                            !.bitMask = hist.bitMask \div 2]
    /\ UNCHANGED OE
    /\ ShiftUnchanged

\* PORTD |= B10000000: RCLK high, the storage register takes the shift
\* register
ShiftLatch ==
    /\ hist.dpc = "latch"
    /\ hist' = [hist EXCEPT !.dpc = "oe",
                            !.OUT_LOAD = 1,
                            !.latch = IF hist.OUT_LOAD = 0 THEN hist.sr ELSE hist.latch,
                            !.latches = hist.latches + (1 - hist.OUT_LOAD)]
    /\ UNCHANGED OE
    /\ ShiftUnchanged

\* PORTC &= B11111101: OE low
ShiftEnable ==
    /\ hist.dpc = "oe"
    /\ hist' = [hist EXCEPT !.dpc = "idle"]
    /\ OE' = 0
    /\ ShiftUnchanged

\* stop() between two calls: PORTC |= B00000010, OE high
ShiftStop ==
    /\ hist.dpc = "idle"
    /\ OE = 0
    /\ OE' = 1
    /\ UNCHANGED hist
    /\ ShiftUnchanged

NextShift ==
    \/ \E f \in ShiftFrames : ShiftCall(f[1], f[2])
    \/ ShiftClkLow
    \/ ShiftData
    \/ ShiftClkHigh
    \/ ShiftLatch
    \/ ShiftEnable
    \/ ShiftStop

SpecShift == InitShift /\ [][NextShift]_vars

\* C31: in a dataOutput call the latch line is low from the first statement
\* to the latch; every rising clock edge comes with the latch line low and
\* shifts in the next bit of (row byte, column byte), most significant bit
\* first, 16 edges in all; the one rising edge of the latch line comes after
\* the 16th clock edge and stores the complete frame; the statement that
\* pulls OE low comes after it; and the storage register holds, at every
\* moment, its power-on contents or a complete frame of a call
C31_ShiftThenLatchThenEnable ==
    /\ []((hist.dpc \in {"clkLow", "data", "clkHigh", "latch"}) => hist.OUT_LOAD = 0)
    /\ [](hist.clocks <= 16 /\ hist.latches <= 1)
    /\ [](hist.latch \in PowerOnWords \cup {f[2] * 256 + f[1] : f \in ShiftFrames})
    /\ [][(hist.OUT_CLK = 0 /\ hist'.OUT_CLK = 1)
            => /\ hist.OUT_LOAD = 0
               /\ hist.clocks <= 15
               /\ hist'.clocks = hist.clocks + 1
               /\ hist.OUT_DATA
                    = ((hist.rowData * 256 + hist.colData) \div (2 ^ (15 - hist.clocks))) % 2
               /\ hist'.latch = hist.latch]_vars
    /\ [][(hist.OUT_LOAD = 0 /\ hist'.OUT_LOAD = 1)
            => /\ hist.clocks = 16
               /\ hist'.latches = 1
               /\ hist'.latch = hist.rowData * 256 + hist.colData]_vars
    /\ [][(OE = 1 /\ OE' = 0)
            => /\ hist.latches = 1
               /\ hist.OUT_LOAD = 1
               /\ hist.latch = hist.rowData * 256 + hist.colData]_vars
    /\ [](hist.dpc = "idle" => (hist.latches = 0 \/ hist.clocks = 16))

\* C31 witness: a call made with OE high, with column 4 and row byte 165,
\* has clocked out 16 bits and latched them, and OE is still high
C31_Witness ==
    /\ hist.dpc = "oe"
    /\ hist.colData = 4
    /\ hist.rowData = 165
    /\ hist.clocks = 16
    /\ hist.latches = 1
    /\ hist.sr = 165 * 256 + 4
    /\ hist.latch = 165 * 256 + 4
    /\ OE = 1

=============================================================================
